---- MODULE Spec2Model ----
(***************************************************************************)
(* The Paginator of examples/testing (pagination01.py, pagination06.py,    *)
(* pagination09.py) and the ChatEntry of panel/chat/entry.py as state      *)
(* machines.  One paginator instance is modelled; `variant` says which of  *)
(* the three source files built it.  One chat entry is modelled.           *)
(* A handler is an operator from the instance's fields (a record) to the   *)
(* fields after the handler returned or raised; an action applies one      *)
(* handler to the current fields and stores the result.                    *)
(***************************************************************************)
EXTENDS Integers, Sequences, FiniteSets, TLC

VARIABLES
    variant,              \* which source file the instance comes from
    items,                \* Paginator.items
    page,                 \* Paginator.page (page_number in pagination09)
    page_size,            \* Paginator.page_size
    pagination_position,  \* Paginator.pagination_position
    page_dropdown,        \* self._page_dropdown: [options, value]
    page_size_select,     \* self._page_size_select.value
    page_label,           \* self._page_label.object: the N of "of N"
    position_select,      \* self._position_select.value
    layout,               \* self.layout (pagination01 only)
    displayed,            \* the layout object the screen shows
    err,                  \* what the last handler raised, or "none"
    entry,                \* the ChatEntry: its parameters, panes and exit stack
    call,                 \* the locals of the stream call running, if any
    last                  \* the last operation, its argument, whether page changed

vars == <<variant, items, page, page_size, pagination_position, page_dropdown,
          page_size_select, page_label, position_select, layout, displayed,
          err, entry, call, last>>

paginator_vars == <<variant, items, page, page_size, pagination_position,
                    page_dropdown, page_size_select, page_label,
                    position_select, layout, displayed, err>>

(***************************************************************************)
(* Bounds of the model.                                                    *)
(***************************************************************************)
MaxItems == 3
MaxInitSize == 2
MaxGoto == 4
MaxRenderers == 2
MaxOpen == 2
MaxStreams == 2
MaxChildren == 3
MaxUpdates == 2
MaxCleanups == 2

\* The demo dashboards paginate range(1, 33): 32 items.
DemoItems == 32

Variants == {"p01", "p06", "p09"}
Positions == {"Top", "Bottom", "Both"}

\* Paginator(items, page_size) as a caller may construct it, and as the
\* dashboard of pagination06 does: Paginator(items=sample_items, page_size=5)
DefaultPageSize == 5
InitSizes == (1..MaxInitSize) \cup {DefaultPageSize}
SmallConstructions == Variants \X (0..MaxItems) \X InitSizes
DemoConstructions == {"p06"} \X {DemoItems} \X {DefaultPageSize}

Max(a, b) == IF a >= b THEN a ELSE b
Min(a, b) == IF a <= b THEN a ELSE b

(***************************************************************************)
(* Pure helpers.                                                           *)
(***************************************************************************)
\* math.ceil(n / d) for the small non-negative n and positive d of the model
math_ceil_div(n, d) == IF n % d = 0 THEN n \div d ELSE (n \div d) + 1

\* pagination09.ceiling_div
ceiling_div(n, d) == (n + d - 1) \div d

\* a division that rounds down
pages_of_floor(v, n, d) == n \div d

\* the division used by a variant
pages_of(v, n, d) == IF v = "p09" THEN ceiling_div(n, d) ELSE math_ceil_div(n, d)

\* the class attribute page_size_options
page_size_options(v) == IF v = "p01" THEN {5, 10, 20, 50} ELSE {1, 5, 10, 20, 50}

\* Paginator.num_pages
num_pages(s) ==
    IF Len(s.items) = 0 THEN 1
    ELSE pages_of(s.variant, Len(s.items), s.page_size)

\* Paginator._get_page_options: the values of the dict {"Page i": i}
get_page_options(s) == 1..num_pages(s)

\* seq[start:end] of Python for 0 <= start
PySlice(seq, start, end) ==
    SubSeq(seq, start + 1, Min(end, Len(seq)))

\* a slice that starts one page too far
page_items_from_page(s) ==
    LET start == s.page * s.page_size
        end == start + s.page_size
    IN PySlice(s.items, start, end)

\* the page_items of page_view / view
page_items(s) ==
    LET start == (s.page - 1) * s.page_size
        end == start + s.page_size
    IN PySlice(s.items, start, end)

(***************************************************************************)
(* Layout objects.  A control set is absent ("none"), the widgets created  *)
(* in __init__ ("shared": their state is read from the instance), or a     *)
(* set of widgets of its own ("own") holding what it was built with.       *)
(***************************************************************************)
NoControls ==
    [kind |-> "none", options |-> {}, value |-> 0, size_value |-> 0,
     label |-> 0, pos_value |-> "Top", visible |-> FALSE]

SharedControls ==
    [kind |-> "shared", options |-> {}, value |-> 0, size_value |-> 0,
     label |-> 0, pos_value |-> "Top", visible |-> TRUE]

NotShown ==
    [shown |-> FALSE, top |-> NoControls, content |-> <<>>, bottom |-> NoControls]

\* a control set whose page selector is not given the current page
create_pagination_controls_unselected(s) ==
    [kind |-> "own", options |-> get_page_options(s), value |-> 1,
     size_value |-> s.page_size, label |-> num_pages(s),
     pos_value |-> s.pagination_position, visible |-> TRUE]

\* pagination06/09 _create_pagination_controls
create_pagination_controls(s) ==
    [kind |-> "own", options |-> get_page_options(s), value |-> s.page,
     size_value |-> s.page_size, label |-> num_pages(s),
     pos_value |-> s.pagination_position, visible |-> TRUE]

\* pagination01 _create_layout (page_view() is called, so its result is a
\* fixed Column of the items of the page at the time of the call)
create_layout(s) ==
    [shown |-> TRUE,
     top |-> IF s.pagination_position \in {"Top", "Both"}
             THEN SharedControls ELSE NoControls,
     content |-> page_items(s),
     bottom |-> IF s.pagination_position \in {"Bottom", "Both"}
                THEN SharedControls ELSE NoControls]

\* pagination06 view
view06(s) ==
    LET content == page_items(s)
    IN IF s.pagination_position = "Bottom"
       THEN [shown |-> TRUE, top |-> NoControls, content |-> content,
             bottom |-> create_pagination_controls(s)]
       ELSE IF s.pagination_position = "Top"
       THEN [shown |-> TRUE, top |-> create_pagination_controls(s),
             content |-> content, bottom |-> NoControls]
       ELSE [shown |-> TRUE, top |-> create_pagination_controls(s),
             content |-> content, bottom |-> create_pagination_controls(s)]

\* pagination09 view: both control sets, their visibility bound to the position
view09(s) ==
    [shown |-> TRUE,
     top |-> [create_pagination_controls(s) EXCEPT
                 !.visible = s.pagination_position \in {"Top", "Both"}],
     content |-> page_items(s),
     bottom |-> [create_pagination_controls(s) EXCEPT
                 !.visible = s.pagination_position \in {"Bottom", "Both"}]]

\* The dashboard holds paginator.view as a reactive pane: the pane calls view
\* again whenever a parameter view depends on changes. pagination01 has no
\* such pane.
rerender(s) ==
    IF s.variant = "p01" THEN s
    ELSE IF s.variant = "p06" THEN [s EXCEPT !.displayed = view06(s)]
    ELSE [s EXCEPT !.displayed = view09(s)]

(***************************************************************************)
(* Assignments that may raise; no statement of a handler runs after one.   *)
(***************************************************************************)
Raise(s, e) == [s EXCEPT !.err = e]

\* param.Integer(bounds=(1, None)) of page and page_size
integer_bounds_ok(v) == v >= 1

\* self._page_label.object = f"**of {self.num_pages}**"
update_page_label(s) == [s EXCEPT !.page_label = num_pages(s)]

\* the statement self._update_page_label(), not reached after a raise
then_update_page_label(s) ==
    IF s.err = "none" THEN update_page_label(s) ELSE s

RECURSIVE set_page(_, _), on_page(_), select_page(_, _),
          set_dropdown_value(_, _), update_page_dropdown(_)

\* self.page = v: validated, stored, and the watchers of page called when
\* the value changed
set_page(s, v) ==
    IF ~integer_bounds_ok(v) THEN Raise(s, "ValueError")
    ELSE IF v = s.page THEN s
    ELSE on_page([s EXCEPT !.page = v])

\* the watchers of page: pagination01 declares _update_page_dropdown and
\* _update_page_label with param.depends('page', watch=True); in 06 and 09
\* the pane around view re-renders
on_page(s) ==
    IF s.variant = "p01"
    THEN then_update_page_label(update_page_dropdown(s))
    ELSE rerender(s)

\* Paginator._select_page
select_page(s, new) ==
    IF s.variant = "p01" THEN set_page(s, new)
    ELSE then_update_page_label(set_page(s, new))

\* self._page_dropdown.value = v: _select_page watches the value
set_dropdown_value(s, v) ==
    IF v = s.page_dropdown.value THEN s
    ELSE select_page([s EXCEPT !.page_dropdown.value = v], v)

\* Paginator._update_page_dropdown
update_page_dropdown(s) ==
    LET current_options == get_page_options(s)
        s1 == [s EXCEPT !.page_dropdown.options = current_options]
    IN IF s.variant = "p01" THEN set_dropdown_value(s1, s1.page)
       ELSE set_dropdown_value(s1, Min(s1.page, Cardinality(current_options)))

\* the statements self._update_page_dropdown(); self._update_page_label()
\* that end a handler, not reached after a raise
then_update_controls(s) ==
    IF s.err = "none" THEN then_update_page_label(update_page_dropdown(s))
    ELSE s

\* an assignment that stores the value before it is validated
set_page_size_late_check(s, v) ==
    IF ~integer_bounds_ok(v) THEN Raise([s EXCEPT !.page_size = v], "ValueError")
    ELSE IF v = s.page_size THEN s
    ELSE rerender([s EXCEPT !.page_size = v])

\* self.page_size = v: validated, stored, and the watchers called on change
\* (none in pagination01; the pane around view in 06 and 09)
set_page_size(s, v) ==
    IF ~integer_bounds_ok(v) THEN Raise(s, "ValueError")
    ELSE IF v = s.page_size THEN s
    ELSE rerender([s EXCEPT !.page_size = v])

\* _previous_page without its guard
previous_page_unguarded(s) ==
    IF s.variant = "p01" THEN set_page(s, s.page - 1)
    ELSE then_update_controls(set_page(s, s.page - 1))

\* Paginator._previous_page
previous_page(s) ==
    IF s.page > 1
    THEN IF s.variant = "p01" THEN set_page(s, s.page - 1)
         ELSE then_update_controls(set_page(s, s.page - 1))
    ELSE s

\* _next_page without its guard
next_page_unguarded(s) ==
    IF s.variant = "p01" THEN set_page(s, s.page + 1)
    ELSE then_update_controls(set_page(s, s.page + 1))

\* Paginator._next_page
next_page(s) ==
    IF s.page < num_pages(s)
    THEN IF s.variant = "p01" THEN set_page(s, s.page + 1)
         ELSE then_update_controls(set_page(s, s.page + 1))
    ELSE s

\* Paginator._first_page
first_page(s) ==
    IF s.variant = "p01" THEN set_page(s, 1)
    ELSE then_update_controls(set_page(s, 1))

\* _last_page taking the index of the last page for its number
last_page_zero_based(s) ==
    IF s.variant = "p01" THEN set_page(s, num_pages(s) - 1)
    ELSE then_update_controls(set_page(s, num_pages(s) - 1))

\* Paginator._last_page
last_page(s) ==
    IF s.variant = "p01" THEN set_page(s, num_pages(s))
    ELSE then_update_controls(set_page(s, num_pages(s)))

\* the page _update_page_size assigns once page_size is stored: 1 in
\* pagination01, min(old_page, new_num_pages) in 06 and 09, where
\* new_num_pages is the bare division (no guard for an empty list)
resized_page(s, old_page) ==
    IF s.variant = "p01" THEN 1
    ELSE Min(old_page, pages_of(s.variant, Len(s.items), s.page_size))

\* Paginator._update_page_size
update_page_size(s, new) ==
    LET old_page == s.page
        s1 == set_page_size(s, new)
        s2 == IF s1.err = "none" THEN set_page(s1, resized_page(s1, old_page))
              ELSE s1
    IN then_update_controls(s2)

\* pagination01 _update_layout
update_layout(s) == [s EXCEPT !.layout = create_layout(s)]

\* a position assignment that also returns to the first page
set_pagination_position_resetting(s, v) ==
    IF v \notin Positions THEN Raise(s, "ValueError")
    ELSE IF v = s.pagination_position THEN s
    ELSE IF s.variant = "p01"
         THEN update_layout([s EXCEPT !.pagination_position = v, !.page = 1])
         ELSE rerender([s EXCEPT !.pagination_position = v, !.page = 1])

\* self.pagination_position = v: a param.Selector over Top, Bottom, Both;
\* pagination01 watches it with _update_layout, 06 and 09 re-render the view
set_pagination_position(s, v) ==
    IF v \notin Positions THEN Raise(s, "ValueError")
    ELSE IF v = s.pagination_position THEN s
    ELSE IF s.variant = "p01"
         THEN update_layout([s EXCEPT !.pagination_position = v])
         ELSE rerender([s EXCEPT !.pagination_position = v])

\* Paginator._update_position
update_position(s, new) ==
    IF s.variant = "p01"
    THEN LET s1 == set_pagination_position(s, new)
         IN IF s1.err = "none" THEN update_layout(s1) ELSE s1
    ELSE set_pagination_position(s, new)

\* pagination01 view(): a new layout, returned inside a new Column
view01(s) ==
    LET l == create_layout(s)
    IN [s EXCEPT !.layout = l, !.displayed = l]

\* paginator.items = its: items is a param.List that no method watches and
\* that view does not depend on
set_items(s, its) == [s EXCEPT !.items = its]

(***************************************************************************)
(* ChatEntry (src/panel/chat/entry.py).  A Python string whose characters  *)
(* matter (a user name, a dictionary key, a MIME type) is the sequence of  *)
(* its characters; an avatar is named by a string.                         *)
(***************************************************************************)
Uppers == <<"A", "B", "C", "D", "E", "F", "G", "H", "I", "J", "K", "L", "M",
            "N", "O", "P", "Q", "R", "S", "T", "U", "V", "W", "X", "Y", "Z">>
Lowers == <<"a", "b", "c", "d", "e", "f", "g", "h", "i", "j", "k", "l", "m",
            "n", "o", "p", "q", "r", "s", "t", "u", "v", "w", "x", "y", "z">>
Digits == {"0", "1", "2", "3", "4", "5", "6", "7", "8", "9"}
Letters == {Uppers[i] : i \in 1..Len(Uppers)} \cup {Lowers[i] : i \in 1..Len(Lowers)}

\* str.lower, one character
lower_char(c) ==
    IF \E i \in 1..Len(Uppers): Uppers[i] = c
    THEN Lowers[CHOOSE i \in 1..Len(Uppers): Uppers[i] = c]
    ELSE c

\* str.lower
lower(str) == [i \in 1..Len(str) |-> lower_char(str[i])]

\* the characters the pattern \W does not match: letters, digits and "_"
is_word_char(c) == c \in Letters \cup Digits \cup {"_"}

\* ChatEntry._to_alpha_numeric: re.sub(r"\W+", "", user).lower()
to_alpha_numeric(user) == lower(SelectSeq(user, is_word_char))

\* str.startswith and str.endswith
startswith(str, prefix) ==
    /\ Len(prefix) <= Len(str)
    /\ SubSeq(str, 1, Len(prefix)) = prefix

endswith(str, suffix) ==
    /\ Len(suffix) <= Len(str)
    /\ SubSeq(str, Len(str) - Len(suffix) + 1, Len(str)) = suffix

(***************************************************************************)
(* A dict is the sequence of its <<key, value>> pairs in insertion order.  *)
(***************************************************************************)
has_key(d, k) == \E i \in 1..Len(d): d[i][1] = k

\* d.get(k, default)
dict_get(d, k, default) ==
    IF has_key(d, k)
    THEN d[CHOOSE i \in 1..Len(d): d[i][1] = k][2]
    ELSE default

\* d[k] = v: an existing key keeps its place
dict_set(d, k, v) ==
    IF has_key(d, k)
    THEN LET i == CHOOSE j \in 1..Len(d): d[j][1] = k
         IN SubSeq(d, 1, i - 1) \o <<<<k, v>>>> \o SubSeq(d, i + 1, Len(d))
    ELSE Append(d, <<k, v>>)

\* d.update(e): the keys of d keep their places, the new keys of e follow
dict_update(d, e) ==
    LET is_new(pair) == ~has_key(d, pair[1])
    IN [i \in 1..Len(d) |-> <<d[i][1], dict_get(e, d[i][1], d[i][2])>>]
       \o SelectSeq(e, is_new)

\* {self._to_alpha_numeric(key): value for key, value in d.items()}: a key
\* stands where it first came up, with the value that came last
normalized_keys(d) ==
    LET keys == <<>> \o [i \in 1..Len(d) |-> to_alpha_numeric(d[i][1])]
        is_first(i) == \A j \in 1..(i - 1): keys[j] # keys[i]
        firsts == SelectSeq([i \in 1..Len(d) |-> i], is_first)
        last_of(k) == CHOOSE i \in 1..Len(d):
                          /\ keys[i] = k
                          /\ \A j \in (i + 1)..Len(d): keys[j] # k
    IN <<>> \o [n \in 1..Len(firsts) |->
                  <<keys[firsts[n]], d[last_of(keys[firsts[n]])][2]>>]

\* the logos: an emoji is named by its code points, an image by its URL
USER_LOGO == "U+1F9D1"
ASSISTANT_LOGO == "U+1F916"
SYSTEM_LOGO == "U+2699 U+FE0F"
ERROR_LOGO == "U+274C"
GPT_3_LOGO == "https://upload.wikimedia.org/wikipedia/commons/thumb/0/04/ChatGPT_logo.svg/1024px-ChatGPT_logo.svg.png?20230318122128"
GPT_4_LOGO == "https://upload.wikimedia.org/wikipedia/commons/a/a4/GPT-4.png"
WOLFRAM_LOGO == "https://upload.wikimedia.org/wikipedia/commons/thumb/e/eb/WolframCorporateLogo.svg/1920px-WolframCorporateLogo.svg.png"

\* the module's DEFAULT_AVATARS
DEFAULT_AVATARS ==
    <<<<<<"c", "l", "i", "e", "n", "t">>, USER_LOGO>>,
      <<<<"c", "u", "s", "t", "o", "m", "e", "r">>, USER_LOGO>>,
      <<<<"e", "m", "p", "l", "o", "y", "e", "e">>, USER_LOGO>>,
      <<<<"h", "u", "m", "a", "n">>, USER_LOGO>>,
      <<<<"p", "e", "r", "s", "o", "n">>, USER_LOGO>>,
      <<<<"u", "s", "e", "r">>, USER_LOGO>>,
      <<<<"a", "g", "e", "n", "t">>, ASSISTANT_LOGO>>,
      <<<<"a", "i">>, ASSISTANT_LOGO>>,
      <<<<"a", "s", "s", "i", "s", "t", "a", "n", "t">>, ASSISTANT_LOGO>>,
      <<<<"b", "o", "t">>, ASSISTANT_LOGO>>,
      <<<<"c", "h", "a", "t", "b", "o", "t">>, ASSISTANT_LOGO>>,
      <<<<"m", "a", "c", "h", "i", "n", "e">>, ASSISTANT_LOGO>>,
      <<<<"r", "o", "b", "o", "t">>, ASSISTANT_LOGO>>,
      <<<<"s", "y", "s", "t", "e", "m">>, SYSTEM_LOGO>>,
      <<<<"e", "x", "c", "e", "p", "t", "i", "o", "n">>, ERROR_LOGO>>,
      <<<<"e", "r", "r", "o", "r">>, ERROR_LOGO>>,
      <<<<"a", "d", "u", "l", "t">>, "U+1F9D1">>,
      <<<<"b", "a", "b", "y">>, "U+1F476">>,
      <<<<"b", "o", "y">>, "U+1F466">>,
      <<<<"c", "h", "i", "l", "d">>, "U+1F9D2">>,
      <<<<"g", "i", "r", "l">>, "U+1F467">>,
      <<<<"m", "a", "n">>, "U+1F468">>,
      <<<<"w", "o", "m", "a", "n">>, "U+1F469">>,
      <<<<"c", "h", "a", "t", "g", "p", "t">>, GPT_3_LOGO>>,
      <<<<"g", "p", "t", "3">>, GPT_3_LOGO>>,
      <<<<"g", "p", "t", "4">>, GPT_4_LOGO>>,
      <<<<"d", "a", "l", "l", "e">>, GPT_4_LOGO>>,
      <<<<"o", "p", "e", "n", "a", "i">>, GPT_4_LOGO>>,
      <<<<"h", "u", "g", "g", "i", "n", "g", "f", "a", "c", "e">>, "U+1F917">>,
      <<<<"c", "a", "l", "c", "u", "l", "a", "t", "o", "r">>, "U+1F9EE">>,
      <<<<"l", "a", "n", "g", "c", "h", "a", "i", "n">>, "U+1F99C">>,
      <<<<"t", "r", "a", "n", "s", "l", "a", "t", "o", "r">>, "U+1F310">>,
      <<<<"w", "o", "l", "f", "r", "a", "m">>, WOLFRAM_LOGO>>,
      <<<<"w", "o", "l", "f", "r", "a", "m", " ", "a", "l", "p", "h", "a">>, WOLFRAM_LOGO>>,
      <<<<"l", "l", "a", "m", "a">>, "U+1F999">>,
      <<<<"l", "l", "a", "m", "a", "2">>, "U+1F42A">>>>

\* pane.Image(avatar) accepts a URL and raises ValueError for any other of
\* these strings
image_accepts(avatar) == avatar \in {GPT_3_LOGO, GPT_4_LOGO, WOLFRAM_LOGO}

\* the callables given as avatar_lookup: None, one that returns the same
\* emoji for every user, one that returns the lower-cased initial
AvatarLookups == {"None", "same_for_all", "lower_initial"}

\* self.avatar_lookup(user)
call_avatar_lookup(f, user) ==
    IF f = "same_for_all" THEN "U+1F60A" ELSE lower_char(user[1])

\* ChatEntry._avatar_lookup
avatar_lookup_default(e, user) ==
    LET alpha_numeric_key == to_alpha_numeric(user)
        updated_avatars ==
            normalized_keys(dict_update(DEFAULT_AVATARS, e.default_avatars))
    IN dict_get(updated_avatars, alpha_numeric_key, e.avatar)

\* ChatEntry._render_avatar, called again by its pane when avatar changes:
\* a string of one character, or one pane.Image refuses, is shown as HTML
render_avatar(e) ==
    LET avatar == IF e.avatar = "" /\ e.user # <<>> THEN e.user[1] ELSE e.avatar
    IN [e EXCEPT !.avatar_pane =
            [object |-> avatar,
             pane |-> IF image_accepts(avatar) THEN "Image" ELSE "HTML"]]

\* self.avatar = a
set_avatar(e, a) ==
    IF a = e.avatar THEN e ELSE render_avatar([e EXCEPT !.avatar = a])

\* an _update_avatar that resolves only while no avatar is set
update_avatar_when_unset(e) ==
    IF e.avatar # "" THEN e
    ELSE IF e.avatar_lookup # "None"
    THEN set_avatar(e, call_avatar_lookup(e.avatar_lookup, e.user))
    ELSE set_avatar(e, avatar_lookup_default(e, e.user))

\* ChatEntry._update_avatar, the watcher of avatar_lookup and user
update_avatar(e) ==
    IF e.avatar_lookup # "None"
    THEN set_avatar(e, call_avatar_lookup(e.avatar_lookup, e.user))
    ELSE set_avatar(e, avatar_lookup_default(e, e.user))

\* ChatEntry._render_user, called again by its pane when user changes
render_user(e) == [e EXCEPT !.user_pane = e.user]

\* entry.user = u
set_user(e, u) ==
    IF u = e.user THEN e
    ELSE render_user(update_avatar([e EXCEPT !.user = u]))

\* entry.avatar_lookup = f
set_avatar_lookup(e, f) ==
    IF f = e.avatar_lookup THEN e
    ELSE update_avatar([e EXCEPT !.avatar_lookup = f])

(***************************************************************************)
(* The value of an entry and the renderers.                                *)
(***************************************************************************)
\* the MIME types of the entries checked
application_pdf == <<"a", "p", "p", "l", "i", "c", "a", "t", "i", "o", "n", "/", "p", "d", "f">>
audio_mpeg == <<"a", "u", "d", "i", "o", "/", "m", "p", "e", "g">>
video_mp4 == <<"v", "i", "d", "e", "o", "/", "m", "p", "4">>
image_png == <<"i", "m", "a", "g", "e", "/", "p", "n", "g">>
text_csv == <<"t", "e", "x", "t", "/", "c", "s", "v">>
text_plain == <<"t", "e", "x", "t", "/", "p", "l", "a", "i", "n">>
application_json == <<"a", "p", "p", "l", "i", "c", "a", "t", "i", "o", "n", "/", "j", "s", "o", "n">>
application_csv == <<"a", "p", "p", "l", "i", "c", "a", "t", "i", "o", "n", "/", "c", "s", "v">>
audio_csv == <<"a", "u", "d", "i", "o", "/", "c", "s", "v">>
application_x_pdf == <<"a", "p", "p", "l", "i", "c", "a", "t", "i", "o", "n", "/", "x", "-", "p", "d", "f">>
MimeTypes ==
    {application_pdf, audio_mpeg, video_mp4, image_png, text_csv,
     text_plain, application_json, application_csv, audio_csv, application_x_pdf}

\* the strings _select_renderer compares the MIME type with
audio_prefix == <<"a", "u", "d", "i", "o", "/">>
video_prefix == <<"v", "i", "d", "e", "o", "/">>
image_prefix == <<"i", "m", "a", "g", "e", "/">>
csv_suffix == <<"/", "c", "s", "v">>
text_prefix == <<"t", "e", "x", "t">>

\* Contents: type is the Python type (bytes, str or another object), utf8
\* whether bytes.decode("utf-8") succeeds, csv whether pandas.read_csv parses
\* it, pane_ok whether the pane class chosen for its type accepts it, sniff
\* the MIME type magic.from_buffer returns (<<>>: from_buffer raises).
Contents(name, type, utf8, csv, pane_ok, sniff) ==
    [name |-> name, type |-> type, utf8 |-> utf8, csv |-> csv,
     pane_ok |-> pane_ok, sniff |-> sniff]

PngBytes == Contents("png", "bytes", FALSE, FALSE, TRUE, image_png)
BrokenBytes == Contents("broken", "bytes", FALSE, FALSE, FALSE, image_png)
TableBytes == Contents("table", "bytes", TRUE, TRUE, TRUE, text_csv)
HelloStr == Contents("hello", "str", TRUE, FALSE, TRUE, text_plain)
HiStr == Contents("hi", "str", TRUE, FALSE, TRUE, text_plain)
UrlStr == Contents("https://panel.holoviz.org/logo.png", "str", TRUE, FALSE, TRUE, text_plain)
TableStr == Contents("a,b", "str", TRUE, TRUE, TRUE, text_csv)
AnObject == Contents("object", "other", FALSE, FALSE, FALSE, <<>>)
NoContents == Contents("", "other", FALSE, FALSE, FALSE, <<>>)

BytesContents == {PngBytes, BrokenBytes, TableBytes}

\* the values of an entry: a _FileInputMessage, a Viewable the caller made,
\* or any other object
FileInputMessage(contents, mime_type) ==
    [kind |-> "file", mime_type |-> mime_type, contents |-> contents]
\* a Viewable: a pane or widget of class cls over contents (its object, or
\* its value if a widget), or a layout with the Viewables objects
Pane(cls, contents) ==
    [kind |-> "viewable", mime_type |-> <<>>, contents |-> contents,
     cls |-> cls, objects |-> <<>>]
Column(objects) ==
    [kind |-> "viewable", mime_type |-> <<>>, contents |-> NoContents,
     cls |-> "Column", objects |-> objects]
AViewable == Pane("Markdown", HelloStr)
Plain(contents) == [kind |-> "plain", mime_type |-> <<>>, contents |-> contents]

Values ==
    {FileInputMessage(c, m) : c \in BytesContents, m \in MimeTypes}
    \cup {Plain(c) : c \in BytesContents \cup {HelloStr, TableStr, AnObject}}
    \cup {AViewable}

\* the callables given in renderers: one raises, one returns an object that
\* is no Viewable, one returns a Viewable (a widget class is called with
\* value=value, any other callable with the value)
CallerRenderers ==
    {[name |-> "raising", returns |-> "raise"],
     [name |-> "to_str", returns |-> "other"],
     [name |-> "to_widget", returns |-> "Viewable"]}

\* the pane classes of _select_renderer and pn.panel
BuiltIn(name) == [name |-> name, returns |-> "by value"]

\* the object handed to the renderers: the contents in one of the forms
\* bytes, str, other, BytesIO, file name, DataFrame
Object(form, contents) == [form |-> form, data |-> contents]


(***************************************************************************)
(* The dispatcher.  _select_renderer returns the object to render and the  *)
(* renderer, or raises; what it entered into the exit stack stays there.   *)
(***************************************************************************)
Selected(stack, object, renderer) ==
    [exit_stack |-> stack, object |-> object, renderer |-> renderer,
     err |-> "none"]

SelectFailed(stack, contents, e) ==
    [exit_stack |-> stack, object |-> Object(contents.type, contents),
     renderer |-> "_panel", err |-> e]

\* a BytesIO(contents) that is handed to the renderer and not entered into
\* the exit stack
enter_BytesIO_unmanaged(stack, contents, renderer) ==
    IF contents.type # "bytes" THEN SelectFailed(stack, contents, "TypeError")
    ELSE Selected(stack, Object("BytesIO", contents), renderer)

\* BytesIO(contents) entered into the exit stack; BytesIO takes bytes only
enter_BytesIO(stack, contents, renderer) ==
    IF contents.type # "bytes" THEN SelectFailed(stack, contents, "TypeError")
    ELSE Selected(Append(stack, "BytesIO"), Object("BytesIO", contents),
                  renderer)

\* a _select_renderer that tests the text prefix before the csv suffix
select_renderer_text_first(stack, contents, mime_type) ==
    IF mime_type = application_pdf
    THEN enter_BytesIO(stack, contents, "PDF")
    ELSE IF startswith(mime_type, audio_prefix)
    THEN LET entered == Append(stack, "NamedTemporaryFile")
         IN IF contents.type # "bytes"
            THEN SelectFailed(entered, contents, "TypeError")
            ELSE Selected(entered, Object("file name", contents), "Audio")
    ELSE IF startswith(mime_type, video_prefix)
    THEN enter_BytesIO(stack, contents, "Video")
    ELSE IF startswith(mime_type, image_prefix)
    THEN enter_BytesIO(stack, contents, "Image")
    ELSE IF startswith(mime_type, text_prefix)
    THEN IF contents.type # "bytes"
         THEN Selected(stack, Object(contents.type, contents), "_panel")
         ELSE IF contents.utf8
         THEN Selected(stack, Object("str", contents), "_panel")
         ELSE SelectFailed(stack, contents, "UnicodeDecodeError")
    ELSE IF endswith(mime_type, csv_suffix)
    THEN IF contents.type # "bytes"
         THEN SelectFailed(stack, contents, "TypeError")
         ELSE IF contents.csv
         THEN Selected(stack, Object("DataFrame", contents), "DataFrame")
         ELSE SelectFailed(stack, contents, "ParserError")
    ELSE Selected(stack, Object(contents.type, contents), "_panel")

\* a _select_renderer without the branch of image types
select_renderer_no_image(stack, contents, mime_type) ==
    IF mime_type = application_pdf
    THEN enter_BytesIO(stack, contents, "PDF")
    ELSE IF startswith(mime_type, audio_prefix)
    THEN LET entered == Append(stack, "NamedTemporaryFile")
         IN IF contents.type # "bytes"
            THEN SelectFailed(entered, contents, "TypeError")
            ELSE Selected(entered, Object("file name", contents), "Audio")
    ELSE IF startswith(mime_type, video_prefix)
    THEN enter_BytesIO(stack, contents, "Video")
    ELSE IF endswith(mime_type, csv_suffix)
    THEN IF contents.type # "bytes"
         THEN SelectFailed(stack, contents, "TypeError")
         ELSE IF contents.csv
         THEN Selected(stack, Object("DataFrame", contents), "DataFrame")
         ELSE SelectFailed(stack, contents, "ParserError")
    ELSE IF startswith(mime_type, text_prefix)
    THEN IF contents.type # "bytes"
         THEN Selected(stack, Object(contents.type, contents), "_panel")
         ELSE IF contents.utf8
         THEN Selected(stack, Object("str", contents), "_panel")
         ELSE SelectFailed(stack, contents, "UnicodeDecodeError")
    ELSE Selected(stack, Object(contents.type, contents), "_panel")

\* ChatEntry._select_renderer
select_renderer(stack, contents, mime_type) ==
    IF mime_type = application_pdf
    THEN enter_BytesIO(stack, contents, "PDF")
    ELSE IF startswith(mime_type, audio_prefix)
    THEN LET entered == Append(stack, "NamedTemporaryFile")
         IN IF contents.type # "bytes"
            THEN SelectFailed(entered, contents, "TypeError")
            ELSE Selected(entered, Object("file name", contents), "Audio")
    ELSE IF startswith(mime_type, video_prefix)
    THEN enter_BytesIO(stack, contents, "Video")
    ELSE IF startswith(mime_type, image_prefix)
    THEN enter_BytesIO(stack, contents, "Image")
    ELSE IF endswith(mime_type, csv_suffix)
    THEN IF contents.type # "bytes"
         THEN SelectFailed(stack, contents, "TypeError")
         ELSE IF contents.csv
         THEN Selected(stack, Object("DataFrame", contents), "DataFrame")
         ELSE SelectFailed(stack, contents, "ParserError")
    ELSE IF startswith(mime_type, text_prefix)
    THEN IF contents.type # "bytes"
         THEN Selected(stack, Object(contents.type, contents), "_panel")
         ELSE IF contents.utf8
         THEN Selected(stack, Object("str", contents), "_panel")
         ELSE SelectFailed(stack, contents, "UnicodeDecodeError")
    ELSE Selected(stack, Object(contents.type, contents), "_panel")

\* renderer(value): "Viewable", "other" (an object that is no Viewable) or
\* "raise".  pn.panel and pane.DataFrame take any object.
call_renderer(r, object) ==
    IF r.returns # "by value" THEN r.returns
    ELSE IF r.name \in {"_panel", "DataFrame"} THEN "Viewable"
    ELSE IF object.data.pane_ok THEN "Viewable"
    ELSE "raise"

\* the pane a renderer returns
pane_of(name, object) ==
    IF name = "_panel"
    THEN IF object.form = "str" THEN "Markdown"
         ELSE IF object.form = "DataFrame" THEN "DataFrame"
         ELSE "Str"
    ELSE IF name = "to_widget" THEN "Widget"
    ELSE name

\* ChatEntry._set_default_attrs for a pane that is no layout
set_default_attrs(panel) ==
    IF panel.pane \in {"Markdown", "Str", "DataFrame"}
    THEN [panel EXCEPT !.attrs = "message"]
    ELSE [panel EXCEPT !.attrs = "stretch_width, height 500"]

Panel(by, object) ==
    [by |-> by, pane |-> pane_of(by, object), object |-> object,
     attrs |-> "as made"]

NoPanel ==
    [by |-> "none", pane |-> "none", object |-> Object("other", NoContents),
     attrs |-> "as made"]

RECURSIVE try_renderers(_, _, _)

\* the loop of _create_panel over the renderers left, and its else clause;
\* calls lists the calls made so far
try_renderers(renderers, object, calls) ==
    IF renderers = <<>>
    THEN [calls |-> Append(calls, [renderer |-> "_panel",
                                   outcome |-> "Viewable"]),
          panel |-> Panel("_panel", object)]
    ELSE LET r == Head(renderers)
             outcome == call_renderer(r, object)
             called == Append(calls, [renderer |-> r.name,
                                      outcome |-> outcome])
         IN IF outcome = "Viewable"
            THEN [calls |-> called, panel |-> Panel(r.name, object)]
            ELSE try_renderers(Tail(renderers), object, called)

\* what _create_panel returns when no exception leaves it
Created(e, panel) == [e |-> e, panel |-> panel]

\* the try block of _create_panel for a value that is no _FileInputMessage:
\* import magic, magic.from_buffer, _select_renderer; any exception is
\* passed over and leaves value and renderer as they were
sniff_and_select(e, contents) ==
    LET unchanged == Selected(e.exit_stack, Object(contents.type, contents),
                              "_panel")
    IN IF ~e.magic \/ contents.sniff = <<>>
       THEN [sel |-> unchanged, sniffed |-> e.magic, selected |-> "none"]
       ELSE LET sel == select_renderer(e.exit_stack, contents, contents.sniff)
            IN IF sel.err = "none"
               THEN [sel |-> sel, sniffed |-> TRUE, selected |-> sel.renderer]
               ELSE [sel |-> [unchanged EXCEPT !.exit_stack = sel.exit_stack],
                     sniffed |-> TRUE, selected |-> "none"]

\* isinstance(value, Viewable): return value.  The panel is the value: its
\* class, and its object if it is a pane
Returned(value) ==
    [by |-> "value", pane |-> value.cls,
     object |-> Object(value.contents.type, value.contents),
     attrs |-> "as made"]

\* a _create_panel that renders a Viewable like any other value
create_panel_no_shortcut(e, value) ==
    LET e0 == [e EXCEPT !.calls = <<>>, !.selected = "none",
                        !.sniffed = FALSE, !.err = "none"]
    IN LET found == IF value.kind = "file"
                       THEN LET sel == select_renderer(e0.exit_stack,
                                           value.contents, value.mime_type)
                            IN [sel |-> sel, sniffed |-> FALSE,
                                selected |-> IF sel.err = "none"
                                             THEN sel.renderer ELSE "none"]
                       ELSE sniff_and_select(e0, value.contents)
               e1 == [e0 EXCEPT !.exit_stack = found.sel.exit_stack,
                                !.sniffed = found.sniffed,
                                !.selected = found.selected]
           IN IF found.sel.err # "none"
              THEN Created([e1 EXCEPT !.err = found.sel.err], NoPanel)
              ELSE LET renderers == Append(e1.renderers,
                                           BuiltIn(found.sel.renderer))
                       tried == try_renderers(renderers, found.sel.object,
                                              <<>>)
                   IN Created([e1 EXCEPT !.calls = tried.calls],
                              set_default_attrs(tried.panel))

\* a _create_panel that tries the type-selected renderer before the caller's
create_panel_type_first(e, value) ==
    LET e0 == [e EXCEPT !.calls = <<>>, !.selected = "none",
                        !.sniffed = FALSE, !.err = "none"]
    IN IF value.kind = "viewable"
       THEN Created(e0, Returned(value))
       ELSE LET found == IF value.kind = "file"
                         THEN LET sel == select_renderer(e0.exit_stack,
                                             value.contents, value.mime_type)
                              IN [sel |-> sel, sniffed |-> FALSE,
                                  selected |-> IF sel.err = "none"
                                               THEN sel.renderer ELSE "none"]
                         ELSE sniff_and_select(e0, value.contents)
                e1 == [e0 EXCEPT !.exit_stack = found.sel.exit_stack,
                                 !.sniffed = found.sniffed,
                                 !.selected = found.selected]
            IN IF found.sel.err # "none"
               THEN Created([e1 EXCEPT !.err = found.sel.err], NoPanel)
               ELSE LET renderers == <<BuiltIn(found.sel.renderer)>>
                                        \o e1.renderers
                        tried == try_renderers(renderers, found.sel.object,
                                               <<>>)
                    IN Created([e1 EXCEPT !.calls = tried.calls],
                               set_default_attrs(tried.panel))

\* ChatEntry._create_panel.  calls, selected and sniffed record what this
\* call of _create_panel invoked; err is the exception that leaves it.
create_panel(e, value) ==
    LET e0 == [e EXCEPT !.calls = <<>>, !.selected = "none",
                        !.sniffed = FALSE, !.err = "none"]
    IN IF value.kind = "viewable"
       THEN Created(e0, Returned(value))
       ELSE LET found == IF value.kind = "file"
                         THEN LET sel == select_renderer(e0.exit_stack,
                                             value.contents, value.mime_type)
                              IN [sel |-> sel, sniffed |-> FALSE,
                                  selected |-> IF sel.err = "none"
                                               THEN sel.renderer ELSE "none"]
                         ELSE sniff_and_select(e0, value.contents)
                e1 == [e0 EXCEPT !.exit_stack = found.sel.exit_stack,
                                 !.sniffed = found.sniffed,
                                 !.selected = found.selected]
            IN IF found.sel.err # "none"
               THEN Created([e1 EXCEPT !.err = found.sel.err], NoPanel)
               ELSE LET renderers == Append(e1.renderers,
                                            BuiltIn(found.sel.renderer))
                        tried == try_renderers(renderers, found.sel.object,
                                               <<>>)
                    IN Created([e1 EXCEPT !.calls = tried.calls],
                               set_default_attrs(tried.panel))

\* ChatEntry._update_chat_copy_icon, the watcher of _value_panel: the text of
\* an HTMLBasePane whose object is a str is a text that can be copied
update_chat_copy_icon(e) ==
    LET panel == e.value_panel
        is_str == /\ panel.pane \in {"Markdown", "Str", "PDF", "Image",
                                     "DataFrame"}
                  /\ panel.object.form = "str"
    IN IF is_str /\ e.show_copy_icon
       THEN [e EXCEPT !.chat_copy_icon =
                [value |-> panel.object.data.name, visible |-> TRUE]]
       ELSE [e EXCEPT !.chat_copy_icon = [value |-> "", visible |-> FALSE]]

\* _render_value: self._value_panel = value_panel, which calls its watcher
\* _update_chat_copy_icon; an exception of _create_panel leaves it as it was
cache_panel(created) ==
    IF created.e.err # "none" THEN created.e
    ELSE update_chat_copy_icon(
             [created.e EXCEPT !.value_panel = created.panel])

\* ChatEntry._render_value, called again by its pane when value changes
render_value(e) == cache_panel(create_panel(e, e.value))

\* entry.value = v
set_value(e, v) ==
    IF v = e.value THEN [e EXCEPT !.err = "none"]
    ELSE render_value([e EXCEPT !.value = v])

\* __init__: the pane of the user is made after the pane of the value,
\* unless making that one raised
then_render_user(e) == IF e.err # "none" THEN e ELSE render_user(e)

(***************************************************************************)
(* The entry as a record.                                                  *)
(***************************************************************************)
\* ChatEntry(value=, renderers=, user=, avatar=, avatar_lookup=,
\* default_avatars=); magic tells whether the module magic can be imported
ChatEntry(value, renderers, user, avatar, avatar_lookup, default_avatars, magic) ==
    LET e0 == [value |-> value, renderers |-> renderers, magic |-> magic,
               show_copy_icon |-> TRUE, user |-> user, avatar |-> avatar,
               given_avatar |-> avatar, avatar_lookup |-> avatar_lookup,
               default_avatars |-> default_avatars, value_panel |-> NoPanel,
               avatar_pane |-> [object |-> "", pane |-> "none"],
               user_pane |-> <<>>,
               chat_copy_icon |-> [value |-> "", visible |-> FALSE],
               reactions |-> <<>>, timestamp |-> "utcnow at construction",
               show_avatar |-> TRUE, show_user |-> TRUE,
               show_timestamp |-> TRUE, show_reaction_icons |-> TRUE,
               exit_stack |-> <<>>, closed |-> <<>>, disposed |-> FALSE,
               calls |-> <<>>, selected |-> "none",
               sniffed |-> FALSE, err |-> "none"]
    IN then_render_user(render_value(render_avatar(
           IF e0.avatar = "" THEN update_avatar(e0) ELSE e0)))

\* the sequence back to front
Reversed(seq) == [i \in 1..Len(seq) |-> seq[Len(seq) + 1 - i]]

\* ChatEntry._cleanup: ExitStack.close() closes what was entered, the last
\* first, and leaves the stack empty; then _exit_stack is None (disposed)
cleanup(e) ==
    IF e.disposed THEN [e EXCEPT !.err = "none"]
    ELSE [e EXCEPT !.closed = @ \o Reversed(e.exit_stack),
                   !.exit_stack = <<>>, !.disposed = TRUE, !.err = "none"]

\* an entry made as ChatEntry(..., reactions=, timestamp=)
With(e, reactions, timestamp) ==
    [e EXCEPT !.reactions = reactions, !.timestamp = timestamp]

\* the arguments of update: a dict, another entry, or any other value; None
\* for user and for avatar
Dict(pairs) == [kind |-> "dict", items |-> pairs]
Entry(e) == [kind |-> "entry", entry |-> e]
NoUser == <<"None">>
NoAvatar == "None"

\* value.param.values() of an entry: its parameters by name
param_values(e) ==
    <<<<"avatar", e.avatar>>, <<"avatar_lookup", e.avatar_lookup>>,
      <<"default_avatars", e.default_avatars>>,
      <<"reactions", e.reactions>>, <<"renderers", e.renderers>>,
      <<"show_avatar", e.show_avatar>>,
      <<"show_copy_icon", e.show_copy_icon>>,
      <<"show_reaction_icons", e.show_reaction_icons>>,
      <<"show_timestamp", e.show_timestamp>>,
      <<"show_user", e.show_user>>, <<"timestamp", e.timestamp>>,
      <<"user", e.user>>, <<"value", e.value>>,
      <<"_value_panel", e.value_panel>>>>

\* the parameters of e with those named in updates replaced, no watcher run
assigned(e, updates) ==
    [e EXCEPT
        !.avatar = dict_get(updates, "avatar", @),
        !.avatar_lookup = dict_get(updates, "avatar_lookup", @),
        !.default_avatars = dict_get(updates, "default_avatars", @),
        !.reactions = dict_get(updates, "reactions", @),
        !.renderers = dict_get(updates, "renderers", @),
        !.show_avatar = dict_get(updates, "show_avatar", @),
        !.show_copy_icon = dict_get(updates, "show_copy_icon", @),
        !.show_reaction_icons = dict_get(updates, "show_reaction_icons", @),
        !.show_timestamp = dict_get(updates, "show_timestamp", @),
        !.show_user = dict_get(updates, "show_user", @),
        !.timestamp = dict_get(updates, "timestamp", @),
        !.user = dict_get(updates, "user", @),
        !.value = dict_get(updates, "value", @),
        !.value_panel = dict_get(updates, "_value_panel", @)]

\* a param.update that calls the watchers of user whether or not it changed
param_update_watching_all(e, updates) ==
    LET e1 == [assigned(e, updates) EXCEPT !.err = "none"]
        e2 == IF e1.value # e.value THEN render_value(e1)
              ELSE IF has_key(updates, "_value_panel")
              THEN update_chat_copy_icon(e1)
              ELSE e1
        e3 == update_avatar(e2)
        e4 == IF e1.avatar # e.avatar \/ e1.show_avatar # e.show_avatar
              THEN render_avatar(e3) ELSE e3
    IN IF e2.err # "none" THEN e2 ELSE render_user(e4)

\* the watchers of a param.update, in the order they were registered: e is
\* the entry before the update, e1 the entry with the parameters assigned,
\* e2, e3 and e4 the entry after the watchers run so far
watch_user(e, e1, e2, e4) ==
    IF e2.err # "none" THEN e2
    ELSE IF e1.user # e.user \/ e1.show_user # e.show_user
    THEN render_user(e4) ELSE e4

watch_avatar(e, e1, e2, e3) ==
    watch_user(e, e1, e2,
               IF e1.avatar # e.avatar \/ e1.show_avatar # e.show_avatar
               THEN render_avatar(e3) ELSE e3)

watch_lookup(e, e1, e2) ==
    watch_avatar(e, e1, e2,
                 IF e1.user # e.user \/ e1.avatar_lookup # e.avatar_lookup
                 THEN update_avatar(e2) ELSE e2)

watch_value(e, updates, e1) ==
    watch_lookup(e, e1,
                 IF e1.value # e.value THEN render_value(e1)
                 ELSE IF has_key(updates, "_value_panel")
                 THEN update_chat_copy_icon(e1)
                 ELSE e1)

\* self.param.update(**updates): the parameters are assigned together, then
\* the watchers of those that changed run: the pane of _render_value, or
\* _update_chat_copy_icon if only _value_panel changed (the panel of
\* another entry is another object), _update_avatar, the panes of
\* _render_avatar and _render_user
param_update(e, updates) ==
    watch_value(e, updates, [assigned(e, updates) EXCEPT !.err = "none"])

\* an update that copies the other entry before it tests user and avatar
update_testing_late(e, value, user, avatar) ==
    IF value.kind = "dict"
    THEN LET with_user == IF user # NoUser /\ user # <<>>
                          THEN dict_set(value.items, "user", user)
                          ELSE value.items
             with_avatar == IF avatar # NoAvatar /\ avatar # ""
                            THEN dict_set(with_user, "avatar", avatar)
                            ELSE with_user
         IN param_update(e, with_avatar)
    ELSE IF value.kind = "entry"
    THEN IF user # NoUser \/ avatar # NoAvatar
         THEN [param_update(e, param_values(value.entry))
                  EXCEPT !.err = "ValueError"]
         ELSE param_update(e, param_values(value.entry))
    ELSE param_update(e, <<<<"value", value>>>>)

\* update: the updates made of the value and the arguments user and avatar
updates_of(value, user, avatar) ==
    IF value.kind = "dict"
    THEN LET with_user == IF user # NoUser /\ user # <<>>
                          THEN dict_set(value.items, "user", user)
                          ELSE value.items
         IN IF avatar # NoAvatar /\ avatar # ""
            THEN dict_set(with_user, "avatar", avatar)
            ELSE with_user
    ELSE IF value.kind = "entry"
    THEN param_values(value.entry)
    ELSE <<<<"value", value>>>>

\* ChatEntry.update(value, user, avatar)
update(e, value, user, avatar) ==
    IF value.kind = "entry" /\ (user # NoUser \/ avatar # NoAvatar)
    THEN [e EXCEPT !.err = "ValueError"]
    ELSE param_update(e, updates_of(value, user, avatar))

\* the user names checked
DefaultUser == <<"U", "s", "e", "r">>
Users ==
    {DefaultUser, <<"D", "r", ".", " ", "A", "d", "a", "!">>, <<"c", "h", "a", "t", "_", "b", "o", "t">>, <<"W", "o", "l", "f", "r", "a", "m", " ", "A", "l", "p", "h", "a">>, <<"G", "P", "T", "-", "4">>, <<"x">>}

\* the avatars given to the constructor: none, or an emoji
GivenAvatars == {"", "U+1F60A"}

\* the default_avatars given to the constructor: the default, or a dict with
\* the keys "Dr Ada" and "USER"
CallerAvatars ==
    <<<<<<"D", "r", " ", "A", "d", "a">>, "U+1F9D4">>, <<<<"U", "S", "E", "R">>, "U+1F464">>>>
AvatarTables == {DEFAULT_AVATARS, CallerAvatars}

\* ChatEntry(value="hello"), every other parameter at its default
DefaultEntry ==
    ChatEntry(Plain(HelloStr), <<>>, DefaultUser, "", "None", DEFAULT_AVATARS,
              TRUE)

(***************************************************************************)
(* ChatEntry.stream.  The locals of a call are a record: pc is "idle"      *)
(* between calls and "loop" from the first test of the while condition to  *)
(* the return.  A local that holds an object holds a reference to it: the  *)
(* entry (self), the Viewable at a path of child indexes below self.value  *)
(* (node), the object or value of that Viewable, or self.value itself if   *)
(* it is no Viewable (data), or None.  origin and streamed remember the    *)
(* value the entry was made with and the tokens of the calls that          *)
(* returned.                                                               *)
(***************************************************************************)
Ref(kind, path) == [kind |-> kind, path |-> path]
None == Ref("None", <<>>)

NoCall(origin) ==
    [pc |-> "idle", token |-> "", i |-> -1, parent_panel |-> None,
     value_panel |-> None, attr |-> "value", value |-> None,
     origin |-> origin, streamed |-> <<>>]

RECURSIVE node_at(_, _)

\* the object below the value v at a path of child indexes
node_at(v, path) ==
    IF path = <<>> THEN v ELSE node_at(v.objects[Head(path)], Tail(path))

RECURSIVE set_contents_at(_, _, _)

\* setattr(pane, "object" or "value", contents) for the pane at path, seen
\* from the value v that holds it
set_contents_at(v, path, contents) ==
    IF path = <<>> THEN [v EXCEPT !.contents = contents]
    ELSE [v EXCEPT !.objects[Head(path)] =
                       set_contents_at(@, Tail(path), contents)]

\* the object a reference of kind data stands for
data_of(e, r) == node_at(e.value, r.path).contents

\* isinstance(r, str)
is_str(e, r) == r.kind = "data" /\ data_of(e, r).type = "str"

\* r is a Viewable of one of these classes
is_a(e, r, classes) ==
    /\ r.kind = "node"
    /\ node_at(e.value, r.path).kind = "viewable"
    /\ node_at(e.value, r.path).cls \in classes

\* isinstance(r, ImageBase)
is_ImageBase(e, r) == is_a(e, r, {"Image"})

\* hasattr(r, "objects"), hasattr(r, "object"), hasattr(r, "value")
has_objects(e, r) == is_a(e, r, {"Column"})
has_object(e, r) == is_a(e, r, {"Markdown", "Image"})
has_value(e, r) == is_a(e, r, {"TextInput"})

\* stream, from its first line to the while: i, parent_panel, value_panel,
\* attr and value are assigned
stream_enter(e, c, token) ==
    [c EXCEPT !.pc = "loop", !.token = token, !.i = -1,
              !.parent_panel = None, !.value_panel = Ref("self", <<>>),
              !.attr = "value",
              !.value = IF e.value.kind = "plain" THEN Ref("data", <<>>)
                        ELSE Ref("node", <<>>)]

\* the condition of the while of stream
while_condition(e, c) ==
    ~is_str(e, c.value) \/ is_ImageBase(e, c.value_panel)

\* one pass through the body of the while of stream; objects[i] with a
\* negative i counts from the end and raises IndexError before the start
stream_descend(e, c) ==
    LET c1 == [c EXCEPT !.value_panel = c.value]
        objects == node_at(e.value, c.value.path).objects
        index == Len(objects) + c.i + 1
    IN IF has_objects(e, c.value)
       THEN IF index < 1 THEN [call |-> c1, err |-> "IndexError"]
            ELSE [call |-> [c1 EXCEPT !.parent_panel = c.value,
                                      !.attr = "objects",
                                      !.value = Ref("node",
                                          Append(c.value.path, index)),
                                      !.i = -1],
                  err |-> "none"]
       ELSE IF has_object(e, c.value)
       THEN [call |-> [c1 EXCEPT !.attr = "object",
                                 !.value = Ref("data", c.value.path)],
             err |-> "none"]
       ELSE IF has_value(e, c.value)
       THEN [call |-> [c1 EXCEPT !.attr = "value",
                                 !.value = Ref("data", c.value.path)],
             err |-> "none"]
       ELSE IF c.parent_panel # None
       THEN [call |-> [c1 EXCEPT !.value = c.parent_panel,
                                 !.parent_panel = None, !.i = c.i - 1],
             err |-> "none"]
       ELSE [call |-> c1, err |-> "none"]

\* a stream that puts the token in place of the text
stream_setattr_token_only(e, c) ==
    LET old == data_of(e, c.value)
        new == [old EXCEPT !.name = c.token]
    IN IF c.value_panel.kind = "self"
       THEN set_value(e, Plain(new))
       ELSE IF c.value_panel.kind = "node"
       THEN LET value == set_contents_at(e.value, c.value_panel.path, new)
            IN [e EXCEPT !.value = value, !.value_panel = Returned(value),
                         !.err = "none"]
       ELSE [e EXCEPT !.err = "AttributeError"]

\* the last line of stream, setattr(value_panel, attr, value + token):
\* on the entry it assigns the parameter value; on a pane or widget it
\* changes the object that is the entry's value and its panel, and no
\* parameter of the entry; a str has no attribute to set
stream_setattr(e, c) ==
    LET old == data_of(e, c.value)
        new == [old EXCEPT !.name = old.name \o c.token]
    IN IF c.value_panel.kind = "self"
       THEN set_value(e, Plain(new))
       ELSE IF c.value_panel.kind = "node"
       THEN LET value == set_contents_at(e.value, c.value_panel.path, new)
            IN [e EXCEPT !.value = value, !.value_panel = Returned(value),
                         !.err = "none"]
       ELSE [e EXCEPT !.err = "AttributeError"]

(***************************************************************************)
(* The instance as a record, and the state after construction.             *)
(***************************************************************************)
Self ==
    [variant |-> variant, items |-> items, page |-> page,
     page_size |-> page_size, pagination_position |-> pagination_position,
     page_dropdown |-> page_dropdown, page_size_select |-> page_size_select,
     page_label |-> page_label, position_select |-> position_select,
     layout |-> layout, displayed |-> displayed, err |-> "none"]

\* Paginator.__init__(items, page_size) with the defaults page = 1 and
\* pagination_position = 'Top'; in 06 and 09 the dashboard then renders view
Constructed(v, its, size) ==
    LET s0 == [variant |-> v, items |-> its, page |-> 1, page_size |-> size,
               pagination_position |-> "Top",
               page_dropdown |-> [options |-> {}, value |-> 1],
               page_size_select |-> size, page_label |-> 0,
               position_select |-> "Top", layout |-> NotShown,
               displayed |-> NotShown, err |-> "none"]
        s1 == [s0 EXCEPT !.page_dropdown.options = get_page_options(s0)]
        s2 == update_page_label(update_page_dropdown(s1))
    IN IF v = "p01" THEN update_layout(s2) ELSE rerender(s2)

\* the fields of r become the next state; op, arg name the operation
Commit(r, op, arg) ==
    /\ variant' = r.variant
    /\ items' = r.items
    /\ page' = r.page
    /\ page_size' = r.page_size
    /\ pagination_position' = r.pagination_position
    /\ page_dropdown' = r.page_dropdown
    /\ page_size_select' = r.page_size_select
    /\ page_label' = r.page_label
    /\ position_select' = r.position_select
    /\ layout' = r.layout
    /\ displayed' = r.displayed
    /\ err' = r.err
    /\ entry' = entry
    /\ call' = call
    /\ last' = [op |-> op, arg |-> arg, moved |-> r.page # page]

PaginatorFrom(constructions) ==
    \E c \in constructions:
        LET r == Constructed(c[1], [i \in 1..c[2] |-> i], c[3])
        IN /\ variant = r.variant
           /\ items = r.items
           /\ page = r.page
           /\ page_size = r.page_size
           /\ pagination_position = r.pagination_position
           /\ page_dropdown = r.page_dropdown
           /\ page_size_select = r.page_size_select
           /\ page_label = r.page_label
           /\ position_select = r.position_select
           /\ layout = r.layout
           /\ displayed = r.displayed
           /\ err = "none"
           /\ last = [op |-> "init", arg |-> 0, moved |-> FALSE]

\* a paginator, beside a chat entry made with the default parameters
InitFrom(constructions) ==
    /\ PaginatorFrom(constructions)
    /\ entry = DefaultEntry
    /\ call = NoCall(entry.value)

(***************************************************************************)
(* Actions: one per callback.  In pagination01 the user acts on the        *)
(* widgets made in __init__; in 06 and 09 on a control set of the          *)
(* displayed view (c is "top" or "bottom").                                *)
(***************************************************************************)
Slots == {"top", "bottom"}

\* the control sets a user can act on
Usable(c) ==
    IF variant = "p01" THEN c = "top"
    ELSE displayed[c].kind = "own" /\ displayed[c].visible

\* the page selector's current options and value, as the user sees them
SelectorOptions(c) ==
    IF variant = "p01" THEN page_dropdown.options ELSE displayed[c].options

SelectorValue(c) ==
    IF variant = "p01" THEN page_dropdown.value ELSE displayed[c].value

\* click on "<<"
FirstPage == Commit(first_page(Self), "first", 0)

\* click on "<"
PreviousPage == Commit(previous_page(Self), "previous", 0)

\* click on ">"
NextPage == Commit(next_page(Self), "next", 0)

\* click on ">>"
LastPage == Commit(last_page(Self), "last", 0)

\* the page selector of control set c is given the value n
SelectPage(c, n) ==
    /\ Usable(c)
    /\ n # SelectorValue(c)
    /\ IF variant = "p01"
       THEN Commit(set_dropdown_value(Self, n), "goto", n)
       ELSE Commit(select_page([Self EXCEPT !.displayed[c].value = n], n),
                   "goto", n)

\* the page-size selector of control set c is given the value new
UpdatePageSize(c, new) ==
    /\ Usable(c)
    /\ IF variant = "p01"
       THEN /\ new # page_size_select
            /\ Commit(update_page_size([Self EXCEPT !.page_size_select = new],
                                       new), "resize", new)
       ELSE /\ new # displayed[c].size_value
            /\ Commit(update_page_size(
                          [Self EXCEPT !.displayed[c].size_value = new], new),
                      "resize", new)

\* the position selector of control set c is given the value pos
UpdatePosition(c, pos) ==
    /\ Usable(c)
    /\ IF variant = "p01"
       THEN /\ pos # position_select
            /\ Commit(update_position([Self EXCEPT !.position_select = pos],
                                      pos), "position", 0)
       ELSE /\ pos # displayed[c].pos_value
            /\ Commit(update_position(
                          [Self EXCEPT !.displayed[c].pos_value = pos], pos),
                      "position", 0)

\* pagination01: the caller displays paginator.view()
View ==
    /\ variant = "p01"
    /\ Commit(view01(Self), "view", 0)

\* the sizes a resize is given: the selector's options and small sizes
ValidSizes == page_size_options(variant) \cup (1..MaxInitSize)

\* Operations with the inputs the documented contract allows: goto takes a
\* value of the selector's current options, resize a size >= 1.
Next ==
    \/ FirstPage
    \/ PreviousPage
    \/ NextPage
    \/ LastPage
    \/ \E c \in Slots: \E n \in SelectorOptions(c): SelectPage(c, n)
    \/ \E c \in Slots: \E new \in ValidSizes: UpdatePageSize(c, new)
    \/ \E c \in Slots: \E pos \in Positions: UpdatePosition(c, pos)
    \/ View

Init == InitFrom(SmallConstructions \cup DemoConstructions)

Spec == Init /\ [][Next]_vars

\* The navigation and resize callbacks given any value: goto any integer of
\* 0..MaxGoto, resize also a size below 1.
NextDirect ==
    \/ FirstPage
    \/ PreviousPage
    \/ NextPage
    \/ LastPage
    \/ \E c \in Slots: \E n \in 0..MaxGoto: SelectPage(c, n)
    \/ \E c \in Slots: \E new \in ValidSizes \cup {-1, 0}: UpdatePageSize(c, new)

InitDirect == InitFrom(SmallConstructions)

SpecDirect == InitDirect /\ [][NextDirect]_vars

\* the caller assigns a list of n items to paginator.items
SetItems(n) ==
    /\ n # Len(items)
    /\ Commit(set_items(Self, [i \in 1..n |-> i]), "items", n)

\* Navigation from the displayed controls, with the caller replacing the
\* item list at any time by one of 0..MaxItems items.
NextItems ==
    \/ FirstPage
    \/ PreviousPage
    \/ NextPage
    \/ LastPage
    \/ \E c \in Slots: \E n \in SelectorOptions(c): SelectPage(c, n)
    \/ \E n \in 0..MaxItems: SetItems(n)

SpecItems == InitDirect /\ [][NextItems]_vars

\* _update_page_size of pagination06 and 09 in its two steps, each of which
\* may render the view.  The first: old_page = self.page and
\* self.page_size = event.new, after which last.arg holds old_page
UpdatePageSizeAssign(c, new) ==
    /\ Usable(c)
    /\ new # displayed[c].size_value
    /\ Commit(set_page_size([Self EXCEPT !.displayed[c].size_value = new], new),
              IF integer_bounds_ok(new) THEN "page_size" ELSE "resize", page)

\* The second: self.page = min(old_page, new_num_pages), then the page
\* selector and the label made in __init__ are updated
UpdatePageSizeClamp ==
    /\ last.op = "page_size"
    /\ Commit(then_update_controls(set_page(Self, resized_page(Self, last.arg))),
              "resize", page_size)

\* no callback runs while another is running
NoCallbackRunning == last.op # "page_size"

\* The callbacks of pagination06 and 09 from the displayed controls, with
\* _update_page_size taken in its two steps.
NextResize ==
    \/ NoCallbackRunning /\ FirstPage
    \/ NoCallbackRunning /\ PreviousPage
    \/ NoCallbackRunning /\ NextPage
    \/ NoCallbackRunning /\ LastPage
    \/ \E c \in Slots: \E n \in SelectorOptions(c):
           NoCallbackRunning /\ SelectPage(c, n)
    \/ \E c \in Slots: \E new \in ValidSizes:
           NoCallbackRunning /\ UpdatePageSizeAssign(c, new)
    \/ UpdatePageSizeClamp
    \/ \E c \in Slots: \E pos \in Positions:
           NoCallbackRunning /\ UpdatePosition(c, pos)

InitResize ==
    InitFrom({c \in SmallConstructions \cup DemoConstructions: c[1] # "p01"})

SpecResize == InitResize /\ [][NextResize]_vars

(***************************************************************************)
(* The chat entry: one action per assignment of a parameter by the caller. *)
(***************************************************************************)
\* the entry exists unless its constructor raised
EntryExists == ~(last.op = "init" /\ entry.err # "none")

CommitEntry(e, op) ==
    /\ EntryExists
    /\ entry' = e
    /\ call' = call
    /\ last' = [op |-> op, arg |-> 0, moved |-> FALSE]
    /\ UNCHANGED paginator_vars

\* entry.value = v
SetValue(v) ==
    /\ v # entry.value
    /\ Len(entry.exit_stack) < MaxOpen
    /\ CommitEntry(set_value(entry, v), "value")

\* entry.user = u
SetUser(u) ==
    /\ u # entry.user
    /\ CommitEntry(set_user(entry, u), "user")

\* entry.avatar_lookup = f
SetAvatarLookup(f) ==
    /\ f # entry.avatar_lookup
    /\ CommitEntry(set_avatar_lookup(entry, f), "avatar_lookup")

\* entry.stream(token) is called
StreamCall(token) ==
    /\ EntryExists
    /\ call.pc = "idle"
    /\ Len(call.streamed) < MaxStreams
    /\ call' = stream_enter(entry, call, token)
    /\ entry' = [entry EXCEPT !.err = "none"]
    /\ last' = [op |-> "call", arg |-> 0, moved |-> FALSE]
    /\ UNCHANGED paginator_vars

\* the call left by the exception e, or by return if e is "none"
StreamLeft(e) ==
    /\ entry' = e
    /\ call' = [NoCall(call.origin) EXCEPT
                   !.streamed = IF e.err = "none"
                                THEN Append(call.streamed, call.token)
                                ELSE call.streamed]
    /\ last' = [op |-> "stream", arg |-> 0, moved |-> FALSE]
    /\ UNCHANGED paginator_vars

\* the while condition holds and the body runs once
StreamDescend ==
    /\ call.pc = "loop"
    /\ while_condition(entry, call)
    /\ LET r == stream_descend(entry, call)
       IN IF r.err # "none" THEN StreamLeft([entry EXCEPT !.err = r.err])
          ELSE /\ call' = r.call
               /\ UNCHANGED <<entry, last, paginator_vars>>

\* the while condition fails, setattr runs and stream returns
StreamSetattr ==
    /\ call.pc = "loop"
    /\ ~while_condition(entry, call)
    /\ StreamLeft(stream_setattr(entry, call))

\* the lists of at most MaxRenderers callables given as renderers
RendererLists ==
    UNION {[1..n -> CallerRenderers] : n \in 0..MaxRenderers}

\* the one paginator beside the chat entry
OnePaginator == {<<"p06", 0, DefaultPageSize>>}

\* An entry made with any value and renderers, then given other values.
InitRender ==
    /\ PaginatorFrom(OnePaginator)
    /\ \E v \in Values, rs \in RendererLists, magic \in BOOLEAN:
           entry = ChatEntry(v, rs, DefaultUser, "", "None", DEFAULT_AVATARS,
                             magic)
    /\ call = NoCall(entry.value)

NextRender == \E v \in Values: SetValue(v)

SpecRender == InitRender /\ [][NextRender]_vars

\* An entry made with any user, avatar, avatar_lookup and default_avatars,
\* then given other users and lookups.
InitAvatar ==
    /\ PaginatorFrom(OnePaginator)
    /\ \E u \in Users, a \in GivenAvatars, f \in AvatarLookups,
          d \in AvatarTables:
           entry = ChatEntry(Plain(HelloStr), <<>>, u, a, f, d, TRUE)
    /\ call = NoCall(entry.value)

NextAvatar ==
    \/ \E u \in Users: SetUser(u)
    \/ \E f \in AvatarLookups: SetAvatarLookup(f)

SpecAvatar == InitAvatar /\ [][NextAvatar]_vars

\* the users an entry is changed to: those above, three more with an entry
\* in the built-in table and two more with none
ChangedUsers ==
    Users \cup {<<"S", "y", "s", "t", "e", "m">>, <<"L", "l", "a", "m", "a">>, <<"H", "u", "m", "a", "n">>, <<"y", "o", "u">>, <<"B", "o", "b">>}

\* An entry made with any user and default_avatars, no avatar and no
\* avatar_lookup, then given other users.
InitUsers ==
    /\ PaginatorFrom(OnePaginator)
    /\ \E u \in ChangedUsers, d \in AvatarTables:
           entry = ChatEntry(Plain(HelloStr), <<>>, u, "", "None", d, TRUE)
    /\ call = NoCall(entry.value)

NextUsers == \E u \in ChangedUsers: SetUser(u)

SpecUsers == InitUsers /\ [][NextUsers]_vars

\* entry.update(value, user, avatar)
Update(value, user, avatar) ==
    /\ EntryExists
    /\ call.pc = "idle"
    /\ last.op = "update" => last.count < MaxUpdates
    /\ entry' = update(entry, value, user, avatar)
    /\ last' = [op |-> "update", arg |-> 0, moved |-> FALSE,
                value |-> value, user |-> user, avatar |-> avatar,
                count |-> IF last.op = "update" THEN last.count + 1 ELSE 1]
    /\ UNCHANGED <<call, paginator_vars>>

\* the entries given to update: made with a user that has an entry in the
\* avatar table or has none, with an avatar or without, with a reaction
\* and at a later time
Bob == <<"B", "o", "b">>
OtherEntries ==
    {With(ChatEntry(Plain(HiStr), <<>>, c[1], c[2], "None", DEFAULT_AVATARS, TRUE),
          <<"favorite">>, "utcnow at a later construction") :
        c \in {<<DefaultUser, "U+1F60A">>, <<Bob, "">>}}

\* the dicts given to update
UpdateDicts ==
    {Dict(<<<<"user", Bob>>>>),
     Dict(<<<<"value", Plain(HiStr)>>, <<"user", DefaultUser>>, <<"avatar", "U+1F916">>>>)}

\* the values given to update that are no dict and no entry
UpdateRaw == {Plain(HiStr), AViewable}

UpdateValues ==
    UpdateDicts \cup {Entry(e) : e \in OtherEntries} \cup UpdateRaw

\* the user and avatar arguments of update: None, the empty string, a
\* user with an entry in the avatar table; None, an emoji
UserArguments == {NoUser, <<>>, <<"b", "o", "t">>}
AvatarArguments == {NoAvatar, "U+1F60A"}

\* An entry made with or without an avatar, then updated.
InitUpdate ==
    /\ PaginatorFrom(OnePaginator)
    /\ \E u \in {DefaultUser, Bob}, a \in GivenAvatars:
           entry = ChatEntry(Plain(HelloStr), <<>>, u, a, "None",
                             DEFAULT_AVATARS, TRUE)
    /\ call = NoCall(entry.value)

NextUpdate ==
    \E value \in UpdateValues, user \in UserArguments,
       avatar \in AvatarArguments: Update(value, user, avatar)

SpecUpdate == InitUpdate /\ [][NextUpdate]_vars

\* entry._cleanup()
Cleanup ==
    /\ EntryExists
    /\ call.pc = "idle"
    /\ last.op = "cleanup" => last.arg < MaxCleanups
    /\ entry' = cleanup(entry)
    /\ last' = [op |-> "cleanup",
                arg |-> IF last.op = "cleanup" THEN last.arg + 1 ELSE 1,
                moved |-> FALSE]
    /\ UNCHANGED <<call, paginator_vars>>

\* An entry made with any value, with no renderer or one that raises, given
\* other values until it is disposed of, and cleaned up again after that.
InitDispose ==
    /\ PaginatorFrom(OnePaginator)
    /\ \E v \in Values, rs \in {<<>>, <<[name |-> "raising", returns |-> "raise"]>>}:
           entry = ChatEntry(v, rs, DefaultUser, "", "None", DEFAULT_AVATARS,
                             TRUE)
    /\ call = NoCall(entry.value)

NextDispose ==
    \/ \E v \in Values: ~entry.disposed /\ SetValue(v)
    \/ Cleanup

SpecDispose == InitDispose /\ [][NextDispose]_vars

\* the text values and Viewables streamed to: a Markdown pane, a text input
\* and an image given by its URL, all holding a str; a Column of at most
\* MaxChildren of them; a Column of one of them and a Column of at most two
Leaves ==
    {Pane("Markdown", HiStr), Pane("TextInput", HelloStr),
     Pane("Image", UrlStr)}
Columns(children, n) == {Column(objects) : objects \in [1..n -> children]}
FlatColumns == UNION {Columns(Leaves, n) : n \in 0..MaxChildren}
NestedColumns ==
    LET inner == UNION {Columns(Leaves, n) : n \in 0..2}
    IN {Column(<<l, c>>) : l \in Leaves, c \in inner}
       \cup {Column(<<c, l>>) : l \in Leaves, c \in inner}
StreamValues ==
    {Plain(HiStr), Plain(TableStr)} \cup Leaves \cup FlatColumns
    \cup NestedColumns
Tokens == {"x", "y"}

\* An entry made with a text or a Viewable, then streamed to.
InitStream ==
    /\ PaginatorFrom(OnePaginator)
    /\ \E v \in StreamValues:
           entry = ChatEntry(v, <<>>, DefaultUser, "", "None", DEFAULT_AVATARS,
                             TRUE)
    /\ call = NoCall(entry.value)

NextStream ==
    \/ \E token \in Tokens: StreamCall(token)
    \/ StreamDescend
    \/ StreamSetattr

SpecStream == InitStream /\ [][NextStream]_vars

\* a call that was entered goes on until it returns or raises
SpecStreamFair == SpecStream /\ WF_vars(StreamDescend \/ StreamSetattr)

\* entry.show_copy_icon = b: no method of the entry depends on it
SetShowCopyIcon(b) ==
    /\ EntryExists
    /\ call.pc = "idle"
    /\ b # entry.show_copy_icon
    /\ CommitEntry([entry EXCEPT !.show_copy_icon = b, !.err = "none"],
                   "show_copy_icon")

\* the values given to update beside stream and the flag: a text, a pane,
\* the flag in a dict, and an entry made without the copy icon
HiddenIconEntry ==
    [ChatEntry(Plain(HiStr), <<>>, DefaultUser, "", "None", DEFAULT_AVATARS, TRUE) EXCEPT !.show_copy_icon = FALSE, !.chat_copy_icon = [value |-> "", visible |-> FALSE]]
IconUpdates ==
    {Plain(HelloStr), AViewable, Dict(<<<<"show_copy_icon", FALSE>>>>),
     Entry(HiddenIconEntry)}

\* An entry made with a text, a pane or a layout, then updated, streamed to
\* and shown with or without the copy icon.
InitIcon ==
    /\ PaginatorFrom(OnePaginator)
    /\ \E v \in {Plain(HiStr), Pane("Markdown", HiStr),
                  Column(<<Pane("Markdown", HiStr), Pane("Image", UrlStr)>>)}:
           entry = ChatEntry(v, <<>>, DefaultUser, "", "None", DEFAULT_AVATARS,
                             TRUE)
    /\ call = NoCall(entry.value)

NextIcon ==
    \/ \E value \in IconUpdates: Update(value, NoUser, NoAvatar)
    \/ \E token \in Tokens: StreamCall(token)
    \/ StreamDescend
    \/ StreamSetattr
    \/ \E b \in BOOLEAN: SetShowCopyIcon(b)

SpecIcon == InitIcon /\ [][NextIcon]_vars

(***************************************************************************)
(* Properties.                                                             *)
(***************************************************************************)
NavOps == {"first", "previous", "next", "last", "goto", "resize"}

\* C1: after every operation of any sequence of first, previous, next, last,
\* goto (a value of the selector's options) and resize (a size >= 1), the
\* state satisfies 1 <= page <= num_pages and page_size >= 1.
PageWithinBounds ==
    /\ 1 <= page
    /\ page <= num_pages(Self)
    /\ page_size >= 1

\* a resize that moved the page onto the new last page
PageWithinBoundsWitness ==
    /\ last.op = "resize"
    /\ last.moved
    /\ page > 1
    /\ page = num_pages(Self)

\* the least k with k * d >= n: ceil(n / d) stated without a division
LeastCover(n, d) ==
    CHOOSE k \in 0..n: k * d >= n /\ \A j \in 0..(k - 1): j * d < n

\* C2: for every item count N >= 0 and page_size P >= 1, num_pages is
\* max(1, ceil(N / P)); it is 1, never 0, for the empty list.
NumPagesIsCeiling ==
    /\ num_pages(Self) = Max(1, LeastCover(Len(items), page_size))
    /\ Len(items) = 0 => num_pages(Self) = 1

\* the empty list under a page size other than the default
NumPagesIsCeilingWitness ==
    /\ Len(items) = 0
    /\ page_size = 50
    /\ num_pages(Self) = 1

\* the slice page_view / view shows on page p
SliceOfPage(p) == page_items([Self EXCEPT !.page = p])

\* C3: on every valid page p the visible slice is the P items from offset
\* (p-1)*P; it has P items on every page but the last, N - (num_pages-1)*P
\* on the last, and is empty only when N = 0.
SliceOfEveryPage ==
    \A p \in 1..num_pages(Self):
        LET sl == SliceOfPage(p)
            n == Len(items)
        IN /\ p < num_pages(Self) => Len(sl) = page_size
           /\ p = num_pages(Self) => Len(sl) = n - (num_pages(Self) - 1) * page_size
           /\ Len(sl) = 0 => n = 0
           /\ \A i \in 1..Len(sl): sl[i] = items[(p - 1) * page_size + i]

\* 32 items, page_size 5, page 7: exactly items 31 and 32
SliceOfEveryPageWitness ==
    /\ Len(items) = DemoItems
    /\ page_size = 5
    /\ page = 7
    /\ page_items(Self) = <<31, 32>>

\* C4: previous() sets page to max(1, page - 1), next() sets it to
\* min(num_pages, page + 1), and neither raises, also at the bounds.
PreviousNextClamp ==
    [][/\ last'.op = "previous" =>
            page' = Max(1, page - 1) /\ err' = "none"
       /\ last'.op = "next" =>
            page' = Min(num_pages(Self), page + 1) /\ err' = "none"]_vars

\* next() on the last of several pages left the page where it was
PreviousNextClampWitness ==
    /\ last.op = "next"
    /\ ~last.moved
    /\ err = "none"
    /\ page > 1
    /\ page = num_pages(Self)

\* C5: first() leaves page = 1, last() leaves page = num_pages(); neither
\* changes items or page_size.
FirstLastPage ==
    [][/\ last'.op = "first" =>
            page' = 1 /\ items' = items /\ page_size' = page_size
       /\ last'.op = "last" =>
            /\ page' = num_pages(Self)
            /\ items' = items
            /\ page_size' = page_size]_vars

\* last() moved from an earlier page to the last of at least three
FirstLastPageWitness ==
    /\ last.op = "last"
    /\ last.moved
    /\ page >= 3
    /\ page = num_pages(Self)

\* C6: resize(new_size) with new_size >= 1 sets page_size = new_size and keeps
\* the page, clamped to the new bound: page = min(page before, num_pages).
ResizeKeepsClampedPage ==
    [][(last'.op = "resize" /\ last'.arg >= 1) =>
            /\ page_size' = last'.arg
            /\ page' = Min(page, num_pages(Self)')]_vars

\* C7: for any item list, the empty one included, and any new_size >= 1,
\* resize raises nothing and leaves 1 <= page <= num_pages.
ResizeNeverRaises ==
    (last.op = "resize" /\ last.arg >= 1) =>
        /\ err = "none"
        /\ 1 <= page
        /\ page <= num_pages(Self)

\* C8: resize(new_size) with new_size < 1 fails and leaves page_size, page
\* and items as they were.
InvalidSizeRejected ==
    [][(last'.op = "resize" /\ last'.arg < 1) =>
            /\ err' = "ValueError"
            /\ page_size' = page_size
            /\ page' = page
            /\ items' = items]_vars

\* a resize to a size below 1 was refused on a page other than the first
InvalidSizeRejectedWitness ==
    /\ last.op = "resize"
    /\ last.arg < 1
    /\ err = "ValueError"
    /\ page > 1
    /\ page <= num_pages(Self)

\* C9: goto(n) sets page = n when n is in 1..num_pages(), and fails, leaving
\* page unchanged, when n < 1 or n > num_pages().
GotoChecksRange ==
    [][last'.op = "goto" =>
            IF last'.arg \in 1..num_pages(Self)
            THEN page' = last'.arg /\ err' = "none"
            ELSE page' = page /\ err' # "none"]_vars

\* C10: after any successful first, previous, next, last, goto or resize, the
\* slice in the displayed layout is the slice of the new page and page_size,
\* in every variant.
DisplayedSliceIsCurrent ==
    (last.op \in NavOps /\ err = "none" /\ displayed.shown) =>
        displayed.content = page_items(Self)

\* the control sets of the view: the widgets made in __init__ in pagination01,
\* every control set of the rendered layout in 06 and 09
InView(c) ==
    IF variant = "p01" THEN c = "top" ELSE displayed[c].kind = "own"

\* the number of pages the page label of control set c shows
LabelPages(c) ==
    IF variant = "p01" THEN page_label ELSE displayed[c].label

\* C11: after any successful first, previous, next, last, goto or resize,
\* every page selector of the view has exactly the options 1..num_pages and
\* the value page, and every page label shows the current num_pages.
ControlsRefreshed ==
    (last.op \in NavOps /\ err = "none") =>
        \A c \in Slots:
            InView(c) =>
                /\ SelectorOptions(c) = 1..num_pages(Self)
                /\ SelectorValue(c) = page
                /\ LabelPages(c) = num_pages(Self)

\* a resize of the 32 items that moved the page and changed the page count
ControlsRefreshedWitness ==
    /\ last.op = "resize"
    /\ last.moved
    /\ err = "none"
    /\ Len(items) = DemoItems
    /\ page > 1
    /\ InView("top")
    /\ SelectorOptions("top") = 1..page
    /\ LabelPages("top") = page
    /\ page = num_pages(Self)

\* a control set of the displayed layout that is there to be seen
ControlsAt(c) == displayed[c].kind # "none" /\ displayed[c].visible

\* C12: after a successful set_position(pos) the displayed layout has controls
\* above the content iff pos is Top or Both and below it iff pos is Bottom or
\* Both; with Both the two control sets are distinct sets of widgets, each
\* usable, showing the same page and the same page count.
PositionShown ==
    (last.op = "position" /\ err = "none" /\ displayed.shown) =>
        /\ ControlsAt("top") <=> pagination_position \in {"Top", "Both"}
        /\ ControlsAt("bottom") <=> pagination_position \in {"Bottom", "Both"}
        /\ pagination_position = "Both" =>
               /\ displayed.top.kind = "own"
               /\ displayed.bottom.kind = "own"
               /\ displayed.top.value = page
               /\ displayed.bottom.value = page
               /\ displayed.top.label = num_pages(Self)
               /\ displayed.bottom.label = num_pages(Self)

\* C13: set_position(pos) changes the position only: the items, page,
\* page_size, num_pages and the current slice are the same before and after.
PositionOnly ==
    [][last'.op = "position" =>
            /\ items' = items
            /\ page' = page
            /\ page_size' = page_size
            /\ num_pages(Self)' = num_pages(Self)
            /\ page_items(Self)' = page_items(Self)]_vars

\* the position was changed to Both on a later page of several
PositionOnlyWitness ==
    /\ last.op = "position"
    /\ pagination_position = "Both"
    /\ page > 1
    /\ num_pages(Self) > page
    /\ err = "none"

\* C14: after the item list is replaced, page is within 1..num_pages of the
\* new list and every page selector of the view has the options 1..num_pages
\* of the new list.
ItemsResetDerived ==
    last.op = "items" =>
        /\ 1 <= page
        /\ page <= num_pages(Self)
        /\ \A c \in Slots: InView(c) => SelectorOptions(c) = 1..num_pages(Self)

(***************************************************************************)
(* Properties of the chat entry.                                           *)
(***************************************************************************)
\* the MIME type the strategy is selected by: the one of the file-input
\* record, or the one sniffed from any other value
MimeOf(value) ==
    IF value.kind = "file" THEN value.mime_type ELSE value.contents.sniff

\* the strategy listed for a MIME type, first match first
StrategyOf(m) ==
    IF m = application_pdf THEN "PDF"
    ELSE IF startswith(m, audio_prefix) THEN "Audio"
    ELSE IF startswith(m, video_prefix) THEN "Video"
    ELSE IF startswith(m, image_prefix) THEN "Image"
    ELSE IF endswith(m, csv_suffix) THEN "DataFrame"
    ELSE "_panel"

\* C15: the type-selected strategy is a function of the MIME type only:
\* application/pdf gives the document pane, the prefixes audio/, video/ and
\* image/ the audio, video and image panes, the suffix /csv the table pane
\* (so text/csv is a table), the prefix text the decoded text with the
\* generic renderer, and anything else the generic renderer.
StrategyByMimeType ==
    /\ (entry.value.kind = "file" /\ entry.err = "none") =>
           entry.selected # "none"
    /\ entry.selected # "none" =>
           /\ entry.selected = StrategyOf(MimeOf(entry.value))
           /\ (entry.value.kind = "file" /\ entry.value_panel.by = "_panel"
               /\ startswith(entry.value.mime_type, text_prefix)) =>
                  entry.value_panel.object.form = "str"

\* the entry was given the bytes of a table as text/csv
StrategyByMimeTypeWitness ==
    /\ last.op = "value"
    /\ entry.value = FileInputMessage(TableBytes, text_csv)
    /\ entry.selected = "DataFrame"
    /\ entry.value_panel.pane = "DataFrame"

\* the candidates of the entry's value in the order of the list: the
\* caller's renderers, the type-selected one, the generic one
Candidates ==
    [i \in 1..Len(entry.renderers) |-> entry.renderers[i].name]
    \o <<IF entry.selected = "none" THEN "_panel" ELSE entry.selected>>
    \o <<"_panel">>

\* C16: the candidates are called in the order caller renderers,
\* type-selected, generic; one that raises or returns no Viewable is passed
\* over, the first that returns a Viewable made the panel, and no candidate
\* after it is called.
CandidatesInOrder ==
    (entry.value.kind # "viewable" /\ entry.err = "none") =>
        LET n == Len(entry.calls)
        IN /\ n >= 1
           /\ n <= Len(Candidates)
           /\ \A i \in 1..n:
                 /\ entry.calls[i].renderer = Candidates[i]
                 /\ entry.calls[i].outcome = "Viewable" <=> i = n
           /\ entry.value_panel.by = entry.calls[n].renderer

\* two caller renderers and the image pane were passed over
CandidatesInOrderWitness ==
    /\ last.op = "value"
    /\ Len(entry.renderers) = 2
    /\ entry.renderers[1] # entry.renderers[2]
    /\ entry.selected = "Image"
    /\ Len(entry.calls) = 4
    /\ entry.value_panel.by = "_panel"

\* C17: rendering never raises: for every value and every list of renderers
\* exactly one panel is made, whatever fails on the way.
RenderNeverRaises ==
    /\ entry.err = "none"
    /\ entry.value_panel # NoPanel

\* C18: for a file-input record of type image/png the image renderer is
\* selected, and the panel comes from the generic renderer only if making
\* the image raised.
ImageSelected ==
    (entry.value.kind = "file" /\ entry.value.mime_type = image_png) =>
        /\ entry.err = "none"
        /\ entry.selected = "Image"
        /\ entry.value_panel.by = "_panel" =>
               \E i \in 1..Len(entry.calls):
                   entry.calls[i] = [renderer |-> "Image", outcome |-> "raise"]

\* an image was rendered by the image pane
ImageSelectedWitness ==
    /\ last.op = "value"
    /\ entry.value = FileInputMessage(PngBytes, image_png)
    /\ entry.value_panel.by = "Image"
    /\ entry.value_panel.object.form = "BytesIO"

\* C19: a value that is a Viewable is returned as it is: no MIME type is
\* determined and no renderer, the caller's or the generic one, is called.
ViewableReturned ==
    entry.value.kind = "viewable" =>
        /\ entry.err = "none"
        /\ entry.value_panel.by = "value"
        /\ entry.value_panel.object.data = entry.value.contents
        /\ entry.value_panel.attrs = "as made"
        /\ entry.calls = <<>>
        /\ entry.selected = "none"
        /\ ~entry.sniffed

\* an entry with renderers and magic was given a Viewable
ViewableReturnedWitness ==
    /\ last.op = "value"
    /\ entry.value = AViewable
    /\ entry.renderers # <<>>
    /\ entry.magic
    /\ entry.value_panel.by = "value"

\* the user name without its non-alphanumeric characters, in lower case
alphanumeric_lower(user) ==
    LET keep(c) == c \in Letters \cup Digits
    IN lower(SelectSeq(user, keep))

\* the entry of a table under a normalised key: the last whose normalised
\* key is that key
EntriesUnder(table, key) ==
    {i \in 1..Len(table): alphanumeric_lower(table[i][1]) = key}

\* the avatar resolved for the entry's user when no avatar was given
ResolvedAvatar ==
    LET key == alphanumeric_lower(entry.user)
        given == EntriesUnder(entry.default_avatars, key)
        built_in == EntriesUnder(DEFAULT_AVATARS, key)
        latest(s) == CHOOSE i \in s: \A j \in s: j <= i
    IN IF entry.avatar_lookup # "None"
       THEN call_avatar_lookup(entry.avatar_lookup, entry.user)
       ELSE IF given # {} THEN entry.default_avatars[latest(given)][2]
       ELSE IF built_in # {} THEN DEFAULT_AVATARS[latest(built_in)][2]
       ELSE entry.user[1]

\* C20: with no avatar given, the avatar shown is avatar_lookup(user) if
\* avatar_lookup is set; otherwise the entry of the built-in table overlaid
\* by default_avatars under the user without its non-alphanumeric
\* characters and in lower case; otherwise the first character of user.
AvatarResolved ==
    entry.given_avatar = "" => entry.avatar_pane.object = ResolvedAvatar

\* the entries of the built-in table overlaid by default_avatars whose key,
\* with its non-word characters removed and in lower case, is that of user
MergedUnder(user) ==
    LET merged == dict_update(DEFAULT_AVATARS, entry.default_avatars)
    IN {merged[i][2] : i \in {j \in 1..Len(merged):
            /\ to_alpha_numeric(merged[j][1]) = to_alpha_numeric(user)
            /\ \A k \in (j + 1)..Len(merged):
                   to_alpha_numeric(merged[k][1]) # to_alpha_numeric(user)}}

\* C21 as claimed: an entry made with an avatar keeps that avatar when user
\* or avatar_lookup changes afterwards.
ProvidedAvatarKept ==
    entry.given_avatar # "" => entry.avatar = entry.given_avatar

\* C21, amended: resolution is skipped only at construction.  An entry made
\* with an avatar starts with it; while it still has it, a change of user or
\* avatar_lookup sets avatar to avatar_lookup(user) if avatar_lookup is set,
\* otherwise to the entry of the merged table for the user, and leaves the
\* provided avatar only when there is neither.
ProvidedAvatarUntilResolved ==
    /\ [](last.op = "init" /\ entry.given_avatar # ""
            => entry.avatar = entry.given_avatar)
    /\ [][/\ entry.given_avatar # ""
          /\ entry.avatar = entry.given_avatar
          /\ last'.op \in {"user", "avatar_lookup"}
          => entry'.avatar \in
                IF entry'.avatar_lookup # "None"
                THEN {call_avatar_lookup(entry'.avatar_lookup, entry'.user)}
                ELSE IF MergedUnder(entry'.user) # {}
                THEN MergedUnder(entry'.user)
                ELSE {entry.given_avatar}]_vars

ProvidedAvatarUntilResolvedWitness ==
    /\ last.op = "user"
    /\ entry.given_avatar # ""
    /\ entry.avatar_lookup = "None"
    /\ entry.avatar = USER_LOGO

\* the classes whose object or value is a text that can be streamed to
TextClasses == {"Markdown", "TextInput"}

\* a container whose last child is a pane or widget holding a text
EndsInText(v) ==
    /\ v.kind = "viewable"
    /\ v.cls = "Column"
    /\ v.objects # <<>>
    /\ v.objects[Len(v.objects)].cls \in TextClasses
    /\ v.objects[Len(v.objects)].contents.type = "str"

IsText(v) == v.kind = "plain" /\ v.contents.type = "str"

RECURSIVE Joined(_)

\* the tokens one after the other
Joined(tokens) ==
    IF tokens = <<>> THEN "" ELSE Head(tokens) \o Joined(Tail(tokens))

\* the value v with text put after its text, or after the text of its last
\* child
Extended(v, text) ==
    IF IsText(v) THEN [v EXCEPT !.contents.name = @ \o text]
    ELSE [v EXCEPT !.objects[Len(v.objects)].contents.name = @ \o text]

\* a step in which a stream call returns or raises
StreamLeaves == call.pc = "loop" /\ call'.pc = "idle"

\* C22: stream(token) only appends.  On an entry whose value is the str s
\* the value becomes s + token and no other parameter changes; on an entry
\* whose value is a container ending in a text leaf that leaf's text becomes
\* t + token and nothing else of the entry changes; between calls the text
\* is the original text followed by the tokens in call order.
StreamAppends ==
    /\ [](call.pc = "idle" /\ (IsText(call.origin) \/ EndsInText(call.origin))
            => entry.value = Extended(call.origin, Joined(call.streamed)))
    /\ [][StreamLeaves =>
            /\ IsText(entry.value) =>
                   /\ entry'.err = "none"
                   /\ entry'.value = Extended(entry.value, call.token)
                   /\ entry'.user = entry.user
                   /\ entry'.avatar = entry.avatar
                   /\ entry'.avatar_lookup = entry.avatar_lookup
                   /\ entry'.default_avatars = entry.default_avatars
                   /\ entry'.renderers = entry.renderers
                   /\ entry'.show_copy_icon = entry.show_copy_icon
            /\ EndsInText(entry.value) =>
                   entry' = [entry EXCEPT
                                !.value = Extended(entry.value, call.token)]
         ]_vars

\* two tokens were streamed to a Column of a Markdown pane and a text input
StreamAppendsWitness ==
    /\ last.op = "stream"
    /\ call.streamed = <<"x", "y">>
    /\ call.origin = Column(<<Pane("Markdown", HiStr), Pane("TextInput", HelloStr)>>)
    /\ entry.value.objects[2].contents.name = "helloxy"

\* C23: stream(token) terminates: a call that entered the loop returns or
\* raises after finitely many passes, for a text, a single pane and a
\* container of any shape, also one ending in several images.
StreamTerminates == (call.pc = "loop") ~> (call.pc = "idle")

RECURSIVE TextPaths(_)

\* the paths of child indexes to the panes and widgets below v that hold a
\* text
TextPaths(v) ==
    IF v.cls = "Column"
    THEN UNION {{<<i>> \o p : p \in TextPaths(v.objects[i])} :
                   i \in 1..Len(v.objects)}
    ELSE IF v.cls \in TextClasses /\ v.contents.type = "str" THEN {<<>>}
    ELSE {}

\* p comes before q in the order the objects are laid out
Before(p, q) ==
    \E n \in 1..Len(p):
        /\ n <= Len(q)
        /\ p[n] < q[n]
        /\ \A m \in 1..(n - 1): p[m] = q[m]

\* the path to the last object below v that holds a text
LastText(v) ==
    CHOOSE p \in TextPaths(v): \A q \in TextPaths(v) \ {p}: Before(q, p)

\* C24: when the value is a container, nested or not, that holds a text
\* somewhere, stream(token) puts the token after the text of the last
\* object that holds one, backing up over the images and the containers
\* without text that follow it, and changes no other object.
StreamUpdatesLastText ==
    [][/\ StreamLeaves
       /\ entry.value.kind = "viewable"
       /\ entry.value.cls = "Column"
       /\ TextPaths(entry.value) # {}
       => LET p == LastText(entry.value)
              old == node_at(entry.value, p).contents
          IN /\ entry'.err = "none"
             /\ entry'.value =
                    set_contents_at(entry.value, p,
                        [old EXCEPT !.name = @ \o call.token])]_vars

\* the parameters update is not asked to change by a value alone
Metadata(e) ==
    <<e.user, e.avatar, e.reactions, e.timestamp, e.show_avatar, e.show_user,
      e.show_timestamp, e.show_reaction_icons, e.show_copy_icon>>

\* C25: update with another entry and an explicit user or avatar fails with
\* ValueError and changes no field of the receiving entry, its panel
\* included.
UpdateConflictRejected ==
    [][/\ last'.op = "update"
       /\ last'.value.kind = "entry"
       /\ last'.user # NoUser \/ last'.avatar # NoAvatar
       => entry' = [entry EXCEPT !.err = "ValueError"]]_vars

\* an entry with a reaction was refused; the receiver has none
UpdateConflictRejectedWitness ==
    /\ last.op = "update"
    /\ last.value.kind = "entry"
    /\ last.user = <<"b", "o", "t">>
    /\ last.value.entry.value # entry.value
    /\ entry.err = "ValueError"
    /\ entry.reactions = <<>>

\* C26: update(v) with a value that is no dict and no entry, and no user
\* and no avatar, sets value to v and leaves user, avatar, reactions,
\* timestamp and the visibility flags as they were.
UpdateRawSetsValueOnly ==
    [][/\ last'.op = "update"
       /\ last'.value.kind \notin {"dict", "entry"}
       /\ last'.user = NoUser /\ last'.avatar = NoAvatar
       => /\ entry'.err = "none"
          /\ entry'.value = last'.value
          /\ Metadata(entry') = Metadata(entry)]_vars

\* an entry that was given the user and reaction of another is given a pane
UpdateRawSetsValueOnlyWitness ==
    /\ last.op = "update"
    /\ last.value = AViewable
    /\ last.user = NoUser /\ last.avatar = NoAvatar
    /\ entry.value = AViewable
    /\ entry.user = Bob
    /\ entry.reactions = <<"favorite">>

\* C27: when update succeeds, a user given as argument is the entry's user
\* afterwards and an avatar given as argument is its avatar, whatever the
\* entry had and whatever the dict says, for a dict and for any other
\* value.
UpdateArgumentsOverride ==
    [][last'.op = "update" /\ entry'.err = "none"
       => /\ last'.user # NoUser => entry'.user = last'.user
          /\ last'.avatar # NoAvatar => entry'.avatar = last'.avatar]_vars

\* C28: update(other) with another entry and no user and no avatar leaves
\* the receiver with the value, user, avatar, reactions and timestamp of
\* other, also when other has an avatar of its own and its user has an
\* entry in the avatar table.
UpdateCopiesEntry ==
    [][/\ last'.op = "update"
       /\ last'.value.kind = "entry"
       /\ last'.user = NoUser /\ last'.avatar = NoAvatar
       => LET other == last'.value.entry
          IN /\ entry'.err = "none"
             /\ entry'.value = other.value
             /\ entry'.user = other.user
             /\ entry'.avatar = other.avatar
             /\ entry'.reactions = other.reactions
             /\ entry'.timestamp = other.timestamp]_vars

\* the forms of an object that a renderer is given as a buffer or a file
Materialized == {"BytesIO", "file name"}

\* C29: over any sequence of renders, what a renderer was given as buffer
\* or temporary file is on the exit stack and nothing is closed or taken
\* off the stack before the entry is disposed of, also when the renderer
\* raised; _cleanup closes each once, the last first; a second _cleanup
\* closes nothing and does not raise.
ResourcesReleasedOnce ==
    /\ [](~entry.disposed => entry.closed = <<>>)
    /\ [][/\ last'.op = "value" =>
                /\ Len(entry.exit_stack) <= Len(entry'.exit_stack)
                /\ SubSeq(entry'.exit_stack, 1, Len(entry.exit_stack))
                       = entry.exit_stack
                /\ entry'.err = "none"
                   /\ entry'.value # entry.value
                   /\ entry'.value_panel.object.form \in Materialized
                   => Len(entry'.exit_stack) = Len(entry.exit_stack) + 1
          /\ last'.op = "cleanup" =>
                /\ entry'.err = "none"
                /\ entry'.disposed
                /\ entry'.exit_stack = <<>>
                /\ entry'.closed = entry.closed \o Reversed(entry.exit_stack)
                /\ entry.disposed => entry'.closed = entry.closed]_vars

\* a buffer and a temporary file were closed once, and cleanup ran twice
ResourcesReleasedOnceWitness ==
    /\ last.op = "cleanup"
    /\ last.arg = 2
    /\ entry.closed = <<"NamedTemporaryFile", "BytesIO">>

\* the panel is what the value is rendered as: the value itself if it is a
\* Viewable, a pane over its contents otherwise
PanelOfValue ==
    IF entry.value.kind = "viewable"
    THEN entry.value_panel = Returned(entry.value)
    ELSE /\ entry.value_panel.by # "value"
         /\ entry.value_panel.object.data = entry.value.contents

\* the panel shows a text: an HTML pane over a str
Textual(panel) ==
    /\ panel.pane \in {"Markdown", "Str", "PDF", "Image", "DataFrame"}
    /\ panel.object.form = "str"

\* C30: between the calls of update and stream and the changes of the
\* flags, value_panel is the rendering of the current value, and the copy
\* icon is visible and holds the text of the panel if the panel shows a
\* text and show_copy_icon is true, and is hidden and empty otherwise.
CopyIconFromPanel ==
    call.pc = "idle" =>
        /\ PanelOfValue
        /\ entry.chat_copy_icon =
               IF Textual(entry.value_panel) /\ entry.show_copy_icon
               THEN [value |-> entry.value_panel.object.data.name,
                     visible |-> TRUE]
               ELSE [value |-> "", visible |-> FALSE]

\* C31: for an entry made with no avatar and no avatar_lookup, after any
\* changes of user the avatar shown is the entry of the merged table for
\* the current user, or the first character of the user if the table has
\* none: no avatar found for an earlier user is still shown.
AvatarOfCurrentUser ==
    entry.avatar_pane.object \in
        IF MergedUnder(entry.user) # {} THEN MergedUnder(entry.user)
        ELSE {entry.user[1]}

\* C32: every view rendered after a change of page or page_size, the one
\* after the assignment of page_size inside _update_page_size included, is
\* rendered with 1 <= page <= num_pages and a page selector whose value is
\* one of its options.
RenderedConsistent ==
    \A c \in Slots:
        displayed[c].kind = "own" =>
            /\ 1 <= displayed[c].value
            /\ displayed[c].value <= displayed[c].label
            /\ displayed[c].value \in displayed[c].options

====
